---------------------------- MODULE Spec2Model ----------------------------
(***************************************************************************)
(* A model of nineateseven, the Drupal 7 to Drupal 9 migration tool.       *)
(*                                                                         *)
(* The specifications of the module:                                       *)
(*   Spec        the run of cli(): bundle validation, mapping load, the    *)
(*               create phase (a POST for every node of a bundle), the     *)
(*               field phase (sub-entity POSTs, then one PATCH per record, *)
(*               two for a quick subject guide with a detailed guide)      *)
(*               and the final report; FairSpec is Spec with the fairness  *)
(*               of the create phase's steps;                              *)
(*   SpecUri     the pure function clean_uri applied to bounded URIs;      *)
(*   SpecFields  load_field_data and the row transcoders applied to        *)
(*               bounded field tables.                                     *)
(*                                                                         *)
(* Python strings that the code slices or compares by prefix are modelled  *)
(* as sequences of one-character strings.                                  *)
(***************************************************************************)
EXTENDS Integers, Sequences, FiniteSets, TLC

(***************************************************************************)
(* Bounds of the model.                                                    *)
(***************************************************************************)
\* Longest bundle list given on the command line.
MaxBundles == 2
\* Most fragments concatenated into one input URI of clean_uri.
MaxParts == 3
\* Most rows of one (entity, field) pair handed to the transcoders.
MaxRows == 3

(***************************************************************************)
(* State.                                                                  *)
(***************************************************************************)
\* SpecUri
VARIABLES
    u_pc,       \* "input", then "once" after one rewrite, "twice" after two
    u_in,       \* the input URI
    u_reg,      \* the registry nid_to_obj handed to clean_uri
    u_out,      \* the result of clean_uri(u_in)
    u_again     \* the result of clean_uri applied to the string u_out.uri

uvars == <<u_pc, u_in, u_reg, u_out, u_again>>

\* SpecFields
VARIABLES
    f_pc,       \* "input", then "done" once the field is transcoded
    f_table,    \* the rows of one (entity, field) pair, in stored order
    f_out       \* what each transcoder returns for the loaded rows

fvars == <<f_pc, f_table, f_out>>

\* SpecApi
VARIABLES
    a_pc,       \* "input", then "done" once a request method has returned
    a_obj,      \* the object handed to get, post or patch
    a_out       \* the exception raised and the HTTP requests sent

avars == <<a_pc, a_obj, a_out>>

\* Spec: the run of cli()
VARIABLES
    pc,                     \* where the run stands
    bundles,                \* the bundle names given on the command line
    map_keys,               \* the keys of the mapping section d7_nid_to_d9_uuid
    type_keys,              \* the keys of the mapping section d7_nid_to_d9_type
    map_tids,               \* the keys of the mapping sections d7_tid_to_d9_*
    connection,             \* the pymysql connection: "unopened", "open", "closed"
    nid_to_existing_obj,    \* legacy nid -> remote entity, from the mapping file
    nid_to_new_obj,         \* legacy nid -> remote entity created in this run,
                            \* a dict: a sequence of [k, v] in insertion order
    bi,                     \* index of the bundle of the first loop
    queue,                  \* the nids migrate_<bundle>_nodes has still to POST
    batch,                  \* the dict migrate_<bundle>_nodes is building
    fi,                     \* index of the record of the second loop
    plan,                   \* the sub-entity creates the record's fields still need
    rels,                   \* the references to the sub-entities created so far
    reqs,                   \* every create and update request sent, in order
    served,                 \* how many entities the target API has created
    last_patch,             \* the body of the last update request
    stderr,                 \* the warnings printed so far
    report,                 \* the lines of the final report
    exit_status,            \* "running", "ok" (exit 0) or "error" (non-zero)
    failure                 \* what ended a run in error

dvars == <<pc, bundles, map_keys, type_keys, map_tids, connection,
           nid_to_existing_obj, nid_to_new_obj, bi, queue, batch, fi, plan, rels,
           reqs, served, last_patch, stderr, report, exit_status, failure>>

vars == <<uvars, fvars, avars, dvars>>

(***************************************************************************)
(* Strings as sequences of characters.                                     *)
(***************************************************************************)
StartsWith(s, p) == Len(s) >= Len(p) /\ SubSeq(s, 1, Len(p)) = p

\* s[n:] of Python, 0-based n.
DropFirst(s, n) == SubSeq(s, n + 1, Len(s))

\* Positions where old occurs in s.
Occurrences(s, old) ==
    {i \in 1..(Len(s) - Len(old) + 1) : SubSeq(s, i, i + Len(old) - 1) = old}

\* s.replace(old, new, 1) of Python: only the first occurrence is replaced.
ReplaceAt(s, i, old, new) ==
    SubSeq(s, 1, i - 1) \o new \o SubSeq(s, i + Len(old), Len(s))

Least(S) == CHOOSE j \in S : \A k \in S : j <= k

ReplaceIn(s, at, old, new) == IF at = {} THEN s ELSE ReplaceAt(s, Least(at), old, new)

ReplaceFirst(s, old, new) == ReplaceIn(s, Occurrences(s, old), old, new)

Digits == <<"0", "1", "2", "3", "4", "5", "6", "7", "8", "9">>

IsDigit(c) == \E d \in 1..10 : Digits[d] = c

DigitValue(c) == (CHOOSE d \in 1..10 : Digits[d] = c) - 1

\* int(s) of Python on the characters the model uses: a non-empty run of
\* decimal digits has a value, anything else raises ValueError.
CanParseInt(s) == Len(s) > 0 /\ \A i \in 1..Len(s) : IsDigit(s[i])

RECURSIVE ParseInt(_)
ParseInt(s) ==
    IF Len(s) = 0 THEN 0
    ELSE 10 * ParseInt(SubSeq(s, 1, Len(s) - 1)) + DigitValue(s[Len(s)])

\* str(n) of Python for a natural number: no sign, no leading zero.
RECURSIVE IntToStr(_)
IntToStr(n) ==
    IF n < 10 THEN <<Digits[n + 1]>>
    ELSE IntToStr(n \div 10) \o <<Digits[(n % 10) + 1]>>

(***************************************************************************)
(* The string literals of clean_uri.                                       *)
(***************************************************************************)
S_https == <<"h", "t", "t", "p", "s", ":", "/", "/">>
S_libhost == <<"l", "i", "b", "r", "a", "r", "y", ".",
               "c", "a", "r", "l", "e", "t", "o", "n", ".", "c", "a">>
S_node == <<"n", "o", "d", "e", "/">>
S_slash == <<"/">>
S_proxyhost == <<"p", "r", "o", "x", "y", ".">> \o S_libhost
S_login == <<"/", "l", "o", "g", "i", "n", "?", "u", "r", "l", "=">>
S_url == <<"u", "r", "l">>
S_qurl == <<"q", "u", "r", "l">>
S_help == <<"h", "e", "l", "p", "/">>
S_internal == <<"i", "n", "t", "e", "r", "n", "a", "l", ":">>
S_fourohfour == <<"f", "o", "u", "r", "o", "h", "f", "o", "u", "r">>

\* "https://library.carleton.ca"
S_libsite == S_https \o S_libhost
\* "https://library.carleton.ca/node/"
S_libnode == S_libsite \o S_slash \o S_node
\* "https://proxy.library.carleton.ca/login?url="
S_proxylogin == S_https \o S_proxyhost \o S_login
\* "internal:/node/"
S_internalnode == S_internal \o S_slash \o S_node

(***************************************************************************)
(* Remote entities.  id is the UUID, nid the attribute                     *)
(* drupal_internal__nid, rev the attribute drupal_internal__revision_id.   *)
(***************************************************************************)
RemoteObj(type, k) == [type |-> type, id |-> 1000 + k, nid |-> 500 + k, rev |-> 700 + k]


(***************************************************************************)
(* clean_uri, the reference rewriter.  The result is a record: the         *)
(* returned string, the warnings written to stderr, and exc, the exception *)
(* that left the function ("none" when it returned).                       *)
(***************************************************************************)
Returned(uri, warnings) == [uri |-> uri, warnings |-> warnings, exc |-> "none"]

Raised(uri, exc) == [uri |-> uri, warnings |-> <<>>, exc |-> exc]

\* "node/..." and "/node/..." become "https://library.carleton.ca/node/...".
NormalizeAbsolutePath(uri) ==
    IF StartsWith(uri, S_slash \o S_node) THEN S_libsite \o uri ELSE uri

NormalizeInternal(uri) ==
    NormalizeAbsolutePath(IF StartsWith(uri, S_node) THEN S_libsite \o S_slash \o uri
                          ELSE uri)

\* InternalTarget with the remote entity's UUID taken for its numeric id.
InternalTarget_Uuid(obj) == IntToStr(obj.id)

\* The string put after "internal:/node/" for a registered legacy id.
InternalTarget(obj) == IntToStr(obj.nid)

\* The lookup of a legacy id that the registry does not hold: the KeyError is
\* caught, a warning is printed and the sentinel object is used.
UnknownTarget(uri, nid, originating_nid) ==
    Returned(S_internalnode \o S_fourohfour,
             <<[nid |-> nid, origin |-> originating_nid]>>)

\* nid_to_obj[int(nid)] for the id text cut from the URI.
ResolveNid(uri, nid, nid_to_obj, originating_nid) ==
    IF ~CanParseInt(nid) THEN Raised(uri, "ValueError")
    ELSE IF ParseInt(nid) \in DOMAIN nid_to_obj
    THEN Returned(S_internalnode \o InternalTarget(nid_to_obj[ParseInt(nid)]), <<>>)
    ELSE UnknownTarget(uri, nid, originating_nid)

\* nid[-1] of the text after the prefix raises IndexError when it is empty;
\* one trailing "/" is cut.
CutNid(uri, rest, nid_to_obj, originating_nid) ==
    IF rest = <<>> THEN Raised(uri, "IndexError")
    ELSE ResolveNid(uri,
                    IF rest[Len(rest)] = "/" THEN SubSeq(rest, 1, Len(rest) - 1)
                    ELSE rest,
                    nid_to_obj, originating_nid)

\* An internal-node URI is rewritten to the internal link of the new node.
RewriteInternal(uri, nid_to_obj, originating_nid) ==
    IF ~StartsWith(uri, S_libnode) THEN Returned(uri, <<>>)
    ELSE CutNid(uri, DropFirst(uri, Len(S_libnode)), nid_to_obj, originating_nid)

\* Links to the proxy host get the https scheme.
\* ProxyHttps applied to every URI that does not start with "https://".
ProxyHttps_AnyHost(uri) == IF StartsWith(uri, S_https) THEN uri ELSE S_https \o uri

ProxyHttps(uri) == IF StartsWith(uri, S_proxyhost) THEN S_https \o uri ELSE uri

\* ProxyQurl with the test cut short: any URI on the https proxy host has its
\* first "url" replaced, whether or not it is the login's url parameter.
ProxyQurl_NoParam(uri) ==
    IF StartsWith(uri, S_https \o S_proxyhost) THEN ReplaceFirst(uri, S_url, S_qurl)
    ELSE uri

\* The proxy login takes its target in qurl instead of url.
ProxyQurl(uri) ==
    IF StartsWith(uri, S_proxylogin) THEN ReplaceFirst(uri, S_url, S_qurl) ELSE uri

\* "help/..." and "/help/..." become "internal:/help/...".
HelpFixAbsolutePath(uri) ==
    IF StartsWith(uri, S_slash \o S_help) THEN S_internal \o S_slash \o DropFirst(uri, 1)
    ELSE uri

HelpFix(uri) ==
    HelpFixAbsolutePath(IF StartsWith(uri, S_help) THEN S_internal \o S_slash \o uri
                        ELSE uri)

\* The proxy and help rewrites, applied to what the internal-node step left.
AfterInternal(r) ==
    IF r.exc # "none" THEN r
    ELSE Returned(HelpFix(ProxyQurl(ProxyHttps(r.uri))), r.warnings)

clean_uri(uri, nid_to_obj, originating_nid) ==
    AfterInternal(RewriteInternal(NormalizeInternal(uri), nid_to_obj, originating_nid))

(***************************************************************************)
(* SpecUri: clean_uri applied to bounded inputs.                           *)
(***************************************************************************)
S_42 == <<"4", "2">>
S_99 == <<"9", "9">>
S_x == <<"x">>
S_http == <<"h", "t", "t", "p", ":", "/", "/">>

\* The fragments input URIs are built from.
UriParts ==
    {S_node, S_slash \o S_node, S_libsite, S_42, S_99, S_slash,
     S_proxyhost, S_https, S_http, S_login, S_help, S_internal, S_x}

RECURSIVE Concat(_)
Concat(parts) == IF parts = <<>> THEN <<>> ELSE Head(parts) \o Concat(Tail(parts))

SeqsUpTo(S, n) == UNION {[1..k -> S] : k \in 0..n}

UriInputs == {Concat(parts) : parts \in SeqsUpTo(UriParts, MaxParts)}

\* Registries: the empty one, and one that maps legacy node 42 to a remote
\* node whose drupal_internal__nid is 7.
Reg42 == 42 :> [type |-> "node--page", id |-> 1042, nid |-> 7, rev |-> 8]

RegChoices == {<<>>, Reg42}

NoResult == Returned(<<>>, <<>>)

\* clean_uri(u_in, u_reg, 1)
Rewrite ==
    /\ u_pc = "input"
    /\ u_out' = clean_uri(u_in, u_reg, 1)
    /\ u_pc' = "once"
    /\ UNCHANGED <<u_in, u_reg, u_again>>
    /\ UNCHANGED <<fvars, avars, dvars>>

\* clean_uri applied to its own output.
RewriteAgain ==
    /\ u_pc = "once"
    /\ u_out.exc = "none"
    /\ u_again' = clean_uri(u_out.uri, u_reg, 1)
    /\ u_pc' = "twice"
    /\ UNCHANGED <<u_in, u_reg, u_out>>
    /\ UNCHANGED <<fvars, avars, dvars>>

(***************************************************************************)
(* Field rows and the field transcoders.                                   *)
(*                                                                         *)
(* A row of a field_data_<fieldname> table.  Every row carries every       *)
(* column the transcoders read; a table gives a meaning only to its own:   *)
(*   delta      the sequence number                                        *)
(*   value      <fieldname>_value of a rich-text field, abstracted to the  *)
(*              sequence of its href="..." targets                         *)
(*   summary    <fieldname>_summary, abstracted in the same way            *)
(*   format     <fieldname>_format                                         *)
(*   text       <fieldname>_value of a plain-text or list field            *)
(*   url, title <fieldname>_url and <fieldname>_title of a link field      *)
(*   tid        <fieldname>_tid of a taxonomy reference                    *)
(*   target_id  <fieldname>_target_id of an entity reference               *)
(*   date       <fieldname>_value of a date field: <<y, m, d, hour>>       *)
(***************************************************************************)
Row(delta, value, summary, format, text, url, title, tid, target_id, date) ==
    [delta |-> delta, value |-> value, summary |-> summary, format |-> format,
     text |-> text, url |-> url, title |-> title, tid |-> tid,
     target_id |-> target_id, date |-> date]

RemoveAt(seq, i) == SubSeq(seq, 1, i - 1) \o SubSeq(seq, i + 1, Len(seq))

\* The rows as the table stores them, whatever their delta.
StoredOrder(rows) == rows

\* ORDER BY `delta` of load_field_data: the rows in ascending delta.
FirstLeastDelta(rows) ==
    CHOOSE i \in 1..Len(rows) :
        /\ \A j \in 1..Len(rows) : rows[i].delta <= rows[j].delta
        /\ \A j \in 1..(i - 1) : rows[j].delta # rows[i].delta

RECURSIVE OrderByDelta(_)
MoveToFront(rows, i) == <<rows[i]>> \o OrderByDelta(RemoveAt(rows, i))

OrderByDelta(rows) == IF rows = <<>> THEN <<>> ELSE MoveToFront(rows, FirstLeastDelta(rows))

convert_text_format(textformat) ==
    IF textformat = "1" THEN "basic_html"
    ELSE IF textformat = "2" THEN "full_html"
    ELSE IF textformat = "3" THEN "full_html"
    ELSE "plain_text"

(***************************************************************************)
(* A transcoder's result: the value it returns, the warnings it printed    *)
(* and the exception that left it ("none" when it returned).               *)
(***************************************************************************)
Ok(value) == [value |-> value, warnings |-> <<>>, exc |-> "none"]

Fail(warnings, exc) == [value |-> <<>>, warnings |-> warnings, exc |-> exc]

\* A loop's result: the value of this round put before the values of the
\* rounds after it, unless a round raised.
Then(r, rest) ==
    IF r.exc # "none" THEN Fail(r.warnings, r.exc)
    ELSE IF rest.exc # "none" THEN Fail(r.warnings \o rest.warnings, rest.exc)
    ELSE [value |-> <<r.value>> \o rest.value,
          warnings |-> r.warnings \o rest.warnings, exc |-> "none"]

\* Collects the per-row results of a transcoder's loop, in row order; the
\* first exception ends the loop.
RECURSIVE ForEachRow(_)
ForEachRow(results) ==
    IF results = <<>> THEN Ok(<<>>)
    ELSE Then(Head(results), ForEachRow(Tail(results)))

CleanResult(c) == [value |-> c.uri, warnings |-> c.warnings, exc |-> c.exc]

\* The results of clean_uri over the href targets of a text, in order.
CleanAll(uris, nid_to_obj, nid) ==
    ForEachRow([i \in 1..Len(uris) |-> CleanResult(clean_uri(uris[i], nid_to_obj, nid))])

\* What clean_text returns: re.sub's result c is dropped and the text is
\* returned as it came; clean_uri's warnings and exceptions stay.
TextAsItCame(value, c) == [value |-> value, warnings |-> c.warnings, exc |-> c.exc]

\* clean_text passes every href through clean_uri.
clean_text(value, nid_to_obj, nid) ==
    TextAsItCame(value, CleanAll(value, nid_to_obj, nid))

SummaryItem(v, m, format) ==
    IF v.exc # "none" THEN Fail(v.warnings, v.exc)
    ELSE IF m.exc # "none" THEN Fail(v.warnings \o m.warnings, m.exc)
    ELSE [value |-> [value |-> v.value, summary |-> m.value, format |-> format],
          warnings |-> v.warnings \o m.warnings, exc |-> "none"]

text_with_summary_to_text_with_summary(rows, nid, nid_to_obj) ==
    ForEachRow([i \in 1..Len(rows) |->
        SummaryItem(clean_text(rows[i].value, nid_to_obj, nid),
                    clean_text(rows[i].summary, nid_to_obj, nid),
                    convert_text_format(rows[i].format))])

FormattedItem(v, format) ==
    IF v.exc # "none" THEN Fail(v.warnings, v.exc)
    ELSE [value |-> [value |-> v.value, format |-> format],
          warnings |-> v.warnings, exc |-> "none"]

formatted_text_to_formatted_text(rows, nid, nid_to_obj) ==
    ForEachRow([i \in 1..Len(rows) |->
        FormattedItem(clean_text(rows[i].value, nid_to_obj, nid),
                      convert_text_format(rows[i].format))])

text_to_plain_text(rows) == [i \in 1..Len(rows) |-> rows[i].text]

text_list_to_text_list(rows) == [i \in 1..Len(rows) |-> rows[i].text]

S_route_nolink == <<"r", "o", "u", "t", "e", ":", "<", "n", "o", "l", "i", "n", "k", ">">>

\* An empty uri becomes "route:<nolink>".
LinkItem(c, title) ==
    IF c.exc # "none" THEN Fail(<<>>, c.exc)
    ELSE [value |-> [uri |-> IF c.uri = <<>> THEN S_route_nolink ELSE c.uri,
                     title |-> title],
          warnings |-> c.warnings, exc |-> "none"]

link_to_link(rows, nid, nid_to_obj) ==
    ForEachRow([i \in 1..Len(rows) |->
        LinkItem(clean_uri(rows[i].url, nid_to_obj, nid), rows[i].title)])

\* strftime("%Y-%m-%d"): the day of the datetime, without its time.
content_reviewed(rows) == [i \in 1..Len(rows) |-> SubSeq(rows[i].date, 1, 3)]

\* What news_category appends for one row: only the two known categories
\* are kept.
CategoryOf(tid) ==
    IF tid = 1213 THEN <<"Database Downtime">>
    ELSE IF tid = 1219 THEN <<"New Databases">>
    ELSE <<>>

news_category(rows) == Concat([i \in 1..Len(rows) |-> CategoryOf(rows[i].tid)])

\* The first row decides; no row means False.
database_fulltext(rows) == IF rows = <<>> THEN FALSE ELSE rows[1].text = "Fulltext"

database_trial_feedback(rows) == IF rows = <<>> THEN FALSE ELSE rows[1].text = "yes"

\* ", ".join(authors): one plain-text value, the authors in row order.
gis_author(rows) ==
    [value |-> [i \in 1..Len(rows) |-> rows[i].text], format |-> "plain_text"]

\* mapping["d7_tid_to_d9_uuid"][tid] and mapping["d7_tid_to_d9_taxonomy_type"][tid]:
\* a term the mapping lacks raises KeyError.  tid_keys are the keys of both
\* sections.
\* TermItem with a placeholder for a term the mapping lacks.
TermItem_Placeholder(tid, tid_keys) ==
    IF IntToStr(tid) \in tid_keys
    THEN Ok([id |-> 2000 + tid, type |-> "taxonomy_term--subject"])
    ELSE Ok([id |-> 0, type |-> "taxonomy_term--subject"])

TermItem(tid, tid_keys) ==
    IF IntToStr(tid) \in tid_keys
    THEN Ok([id |-> 2000 + tid, type |-> "taxonomy_term--subject"])
    ELSE Fail(<<>>, "KeyError")

taxonomy_term_reference_to_taxonomy_term_reference(rows, tid_keys) ==
    ForEachRow([i \in 1..Len(rows) |-> TermItem(rows[i].tid, tid_keys)])

\* ReferenceItem with a placeholder for a target the registry lacks.
ReferenceItem_Placeholder(target_id, nid_to_obj) ==
    IF target_id \in DOMAIN nid_to_obj
    THEN Ok([id |-> nid_to_obj[target_id].id, type |-> nid_to_obj[target_id].type])
    ELSE Ok([id |-> 0, type |-> ""])

\* nid_to_obj[target_id]: a target the registry lacks raises KeyError.
ReferenceItem(target_id, nid_to_obj) ==
    IF target_id \in DOMAIN nid_to_obj
    THEN Ok([id |-> nid_to_obj[target_id].id, type |-> nid_to_obj[target_id].type])
    ELSE Fail(<<>>, "KeyError")

entity_reference_to_entity_reference(rows, nid_to_obj) ==
    ForEachRow([i \in 1..Len(rows) |-> ReferenceItem(rows[i].target_id, nid_to_obj)])

(***************************************************************************)
(* SpecFields: load_field_data and the transcoders applied to bounded      *)
(* field tables.                                                           *)
(***************************************************************************)
\* The contents a row is drawn from.
RowContents ==
    {[value |-> <<S_node \o S_42>>, summary |-> <<>>, format |-> "1",
      text |-> "Fulltext", url |-> S_node \o S_42, title |-> "first",
      tid |-> 1213, target_id |-> 42, date |-> <<2021, 3, 4, 10>>],
     [value |-> <<>>, summary |-> <<S_help \o S_x>>, format |-> "2",
      text |-> "yes", url |-> <<>>, title |-> "second",
      tid |-> 1219, target_id |-> 42, date |-> <<2020, 12, 31, 23>>],
     [value |-> <<S_x>>, summary |-> <<>>, format |-> "plain",
      text |-> "other", url |-> S_x, title |-> "third",
      tid |-> 1300, target_id |-> 42, date |-> <<2019, 1, 1, 0>>]}

RowOf(delta, c) ==
    Row(delta, c.value, c.summary, c.format, c.text, c.url, c.title, c.tid,
        c.target_id, c.date)

\* Tables of up to MaxRows rows, stored in any order, no delta used twice.
FieldTables ==
    {t \in SeqsUpTo({RowOf(d, c) : d \in 0..(MaxRows - 1), c \in RowContents}, MaxRows) :
        \A i, j \in 1..Len(t) : i # j => t[i].delta # t[j].delta}

\* The taxonomy terms the mapping file of SpecFields knows.
TidKeysAll == {IntToStr(1213), IntToStr(1219), IntToStr(1300)}

NoOutput == [loaded |-> <<>>, plain |-> <<>>, list |-> <<>>, formatted |-> <<>>,
             summary |-> <<>>, link |-> <<>>, reviewed |-> <<>>, news |-> <<>>,
             fulltext |-> FALSE, author |-> <<>>, taxonomy |-> <<>>,
             reference |-> <<>>, raised |-> "none"]

\* load_field_data of the table in f_table.
LoadTable(table) == OrderByDelta(table)

\* Every transcoder applied to the same loaded rows.
TranscodeAll(rows) ==
    [loaded |-> rows,
     plain |-> text_to_plain_text(rows),
     list |-> text_list_to_text_list(rows),
     formatted |-> formatted_text_to_formatted_text(rows, 1, Reg42).value,
     summary |-> text_with_summary_to_text_with_summary(rows, 1, Reg42).value,
     link |-> link_to_link(rows, 1, Reg42).value,
     reviewed |-> content_reviewed(rows),
     news |-> news_category(rows),
     fulltext |-> database_fulltext(rows),
     author |-> gis_author(rows).value,
     taxonomy |->
         taxonomy_term_reference_to_taxonomy_term_reference(rows, TidKeysAll).value,
     reference |-> entity_reference_to_entity_reference(rows, Reg42).value,
     raised |-> link_to_link(rows, 1, Reg42).exc]

\* One (entity, field) pair is loaded and transcoded.
Transcode ==
    /\ f_pc = "input"
    /\ f_out' = TranscodeAll(LoadTable(f_table))
    /\ f_pc' = "done"
    /\ UNCHANGED f_table
    /\ UNCHANGED <<uvars, avars, dvars>>

NoText == <<>>
NoDate == <<>>

LinkRow(delta, url, title) == Row(delta, NoText, NoText, "", "", url, title, 0, 0, NoDate)

\* The link rows tried: the url of a registered node, the empty url, a url
\* that is no internal link, the url of a node the registry lacks, and node
\* urls that go on after the id.
LinkContents ==
    {[url |-> S_node \o S_42, title |-> "first"],
     [url |-> <<>>, title |-> "second"],
     [url |-> S_x, title |-> "third"],
     [url |-> S_node \o S_99, title |-> ""],
     [url |-> S_node \o S_42 \o S_slash \o S_x, title |-> "fifth"]}

\* Link tables of up to MaxRows rows, stored in any order, no delta used twice.
LinkTables ==
    {t \in SeqsUpTo({LinkRow(d, c.url, c.title) : d \in 0..(MaxRows - 1), c \in LinkContents},
                    MaxRows) :
        \A i, j \in 1..Len(t) : i # j => t[i].delta # t[j].delta}

\* link_to_link(connection, fieldname, 1, Reg42) for the link field in
\* f_table.
TranscodeLinks ==
    /\ f_pc = "input"
    /\ f_out' = [NoOutput EXCEPT
                    !.loaded = LoadTable(f_table),
                    !.link = link_to_link(LoadTable(f_table), 1, Reg42).value,
                    !.raised = link_to_link(LoadTable(f_table), 1, Reg42).exc]
    /\ f_pc' = "done"
    /\ UNCHANGED f_table
    /\ UNCHANGED <<uvars, avars, dvars>>


(***************************************************************************)
(* The legacy database of the run.                                         *)
(*                                                                         *)
(*   nid  type      content                                                *)
(*    1   page      a body that links to node/3, a review date             *)
(*    2   page      no field row at all                                    *)
(*    3   service   a description, an action link, the service point 1     *)
(*    4   book      a page of book 3, with a body                          *)
(*    5   book      a page of book 9, which no node is                     *)
(*    6   book      a page of book 7                                       *)
(*    7   book      a page of book 6                                       *)
(*    8   guide     two body rows stored out of order, one detailed        *)
(*                  section (field collection item 80)                     *)
(*   10   database  a proxy link, a subject term, the Fulltext flag        *)
(*   11   database  no field row at all                                    *)
(*   12   news      changed after the cutoff; a body, a category           *)
(*   13   news      changed at the cutoff to the second                    *)
(*   14   help_guide  the root of a book with the subpage 113; a body      *)
(*  113   help_guide  on the do-not-migrate list; a body                   *)
(*   16   subject_quick_guide  linked to the detailed guide 17; one key    *)
(*                  resource (item 160) that names database 10             *)
(*   17   subject_detailed_guide  a body, a subject category               *)
(*   18   subject_detailed_guide  no quick guide links to it; a body, a    *)
(*                  subject category                                       *)
(***************************************************************************)
\* time.mktime of datetime.datetime(2020, 1, 1), the clock on UTC.
Cutoff == 1577836800

\* SELECT * FROM node, in row order.
NodeTable ==
    <<[nid |-> 1, type |-> "page", changed |-> 1500000000],
      [nid |-> 2, type |-> "page", changed |-> 1500000000],
      [nid |-> 3, type |-> "service", changed |-> 1500000000],
      [nid |-> 4, type |-> "book", changed |-> 1500000000],
      [nid |-> 5, type |-> "book", changed |-> 1500000000],
      [nid |-> 6, type |-> "book", changed |-> 1500000000],
      [nid |-> 7, type |-> "book", changed |-> 1500000000],
      [nid |-> 8, type |-> "guide", changed |-> 1500000000],
      [nid |-> 10, type |-> "database", changed |-> 1500000000],
      [nid |-> 11, type |-> "database", changed |-> 1500000000],
      [nid |-> 12, type |-> "news", changed |-> 1609459200],
      [nid |-> 13, type |-> "news", changed |-> 1577836800],
      [nid |-> 14, type |-> "help_guide", changed |-> 1500000000],
      [nid |-> 113, type |-> "help_guide", changed |-> 1500000000],
      [nid |-> 16, type |-> "subject_quick_guide", changed |-> 1500000000],
      [nid |-> 17, type |-> "subject_detailed_guide", changed |-> 1500000000],
      [nid |-> 18, type |-> "subject_detailed_guide", changed |-> 1500000000]>>

\* The book table: nid is a page of the book whose root is bid.
BookTable ==
    <<[nid |-> 3, bid |-> 3], [nid |-> 4, bid |-> 3], [nid |-> 5, bid |-> 9],
      [nid |-> 6, bid |-> 7], [nid |-> 7, bid |-> 6],
      [nid |-> 14, bid |-> 14], [nid |-> 113, bid |-> 14]>>


TextRow(delta, value, summary, format) ==
    Row(delta, value, summary, format, "", <<>>, "", 0, 0, NoDate)
PlainRow(delta, text) == Row(delta, NoText, NoText, "", text, <<>>, "", 0, 0, NoDate)
TermRow(delta, tid) == Row(delta, NoText, NoText, "", "", <<>>, "", tid, 0, NoDate)
RefRow(delta, target_id) ==
    Row(delta, NoText, NoText, "", "", <<>>, "", 0, target_id, NoDate)
DateRow(delta, date) == Row(delta, NoText, NoText, "", "", <<>>, "", 0, 0, date)
\* A field-collection field: <fieldname>_value is the id of the item.
ItemRow(delta, item) == Row(delta, NoText, NoText, "", "", <<>>, "", 0, item, NoDate)

\* The rows of field_data_<fieldname> with the given entity_id, as stored.
FieldTable(fieldname, entity_id) ==
    CASE fieldname = "body" /\ entity_id = 1 ->
            <<TextRow(0, <<S_node \o <<"3">>>>, NoText, "2")>>
      [] fieldname = "field_content_reviewed" /\ entity_id = 1 ->
            <<DateRow(0, <<2021, 3, 4, 10>>)>>
      [] fieldname = "field_full_description" /\ entity_id = 3 ->
            <<TextRow(0, <<S_help \o S_x>>, NoText, "1")>>
      [] fieldname = "field_action_link" /\ entity_id = 3 ->
            <<LinkRow(0, S_slash \o S_node \o <<"1">>, "Book it")>>
      [] fieldname = "field_service_point" /\ entity_id = 3 ->
            <<RefRow(0, 1)>>
      [] fieldname = "field_service_category" /\ entity_id = 3 ->
            <<TermRow(0, 7)>>
      [] fieldname = "body" /\ entity_id = 4 ->
            <<TextRow(0, NoText, NoText, "1")>>
      [] fieldname = "body" /\ entity_id = 8 ->
            <<TextRow(1, <<S_x>>, NoText, "1"), TextRow(0, NoText, NoText, "3")>>
      [] fieldname = "field_detailed_guide_section" /\ entity_id = 8 ->
            <<ItemRow(0, 80)>>
      [] fieldname = "field_detailed_guide_section_lab" /\ entity_id = 80 ->
            <<PlainRow(0, "Articles")>>
      [] fieldname = "field_detailed_guide_section_bla" /\ entity_id = 80 ->
            <<TextRow(0, <<S_node \o <<"1", "0">>>>, NoText, "2")>>
      [] fieldname = "field_database_link" /\ entity_id = 10 ->
            <<LinkRow(0, S_proxyhost \o S_login \o S_x, "Connect")>>
      [] fieldname = "field_subject" /\ entity_id = 10 ->
            <<TermRow(1, 7), TermRow(0, 9)>>
      [] fieldname = "field_database_fulltext" /\ entity_id = 10 ->
            <<PlainRow(0, "Fulltext")>>
      [] fieldname = "field_database_authorized_users" /\ entity_id = 10 ->
            <<PlainRow(0, "students"), PlainRow(1, "staff")>>
      [] fieldname = "body" /\ entity_id = 12 ->
            <<TextRow(0, <<S_slash \o S_node \o <<"1", "0">>>>, NoText, "1")>>
      [] fieldname = "field_news_category" /\ entity_id = 12 ->
            <<TermRow(0, 1219)>>
      [] fieldname = "body" /\ entity_id = 14 ->
            <<TextRow(0, <<S_slash \o S_help \o S_x>>, NoText, "1")>>
      [] fieldname = "body" /\ entity_id = 113 ->
            <<TextRow(0, <<S_node \o <<"1", "4">>>>, NoText, "2")>>
      [] fieldname = "field_link_to_detailed_guide" /\ entity_id = 16 ->
            <<RefRow(0, 17)>>
      [] fieldname = "field_key_resources" /\ entity_id = 16 ->
            <<ItemRow(0, 160)>>
      [] fieldname = "field_key_resource_annotation" /\ entity_id = 160 ->
            <<PlainRow(0, "Start here")>>
      [] fieldname = "field_key_resource_databases" /\ entity_id = 160 ->
            <<RefRow(0, 10)>>
      [] fieldname = "field_key_resource_link" /\ entity_id = 160 ->
            <<LinkRow(0, S_node \o <<"1", "0">>, "Open")>>
      [] fieldname = "field_subject_category" /\ entity_id = 16 ->
            <<TermRow(0, 9)>>
      [] fieldname = "body" /\ entity_id = 17 ->
            <<TextRow(0, <<S_node \o <<"1", "6">>>>, NoText, "2")>>
      [] fieldname = "field_subject_category" /\ entity_id = 17 ->
            <<TermRow(0, 7)>>
      [] fieldname = "body" /\ entity_id = 18 ->
            <<TextRow(0, <<S_node \o <<"1", "8">>>>, NoText, "2")>>
      [] fieldname = "field_subject_category" /\ entity_id = 18 ->
            <<TermRow(0, 9)>>
      [] OTHER -> <<>>

load_field_data(fieldname, nid) == OrderByDelta(FieldTable(fieldname, nid))

\* SELECT `type` FROM `node` WHERE `nid` = nid
load_type(nid) == NodeTable[CHOOSE i \in 1..Len(NodeTable) : NodeTable[i].nid = nid].type

\* SELECT changed FROM `node` WHERE `nid` = nid: no row, or a row whose
\* time is not after the cutoff, is not newer.
node_newer_than_cutoff(nid, cutoff) ==
    \E i \in 1..Len(NodeTable) : NodeTable[i].nid = nid /\ NodeTable[i].changed > cutoff

\* The pairs of find_subject_guide_pairs, a dict in row order: the quick
\* guide's nid, then the nid of its detailed guide.
RECURSIVE PairsOf(_)
PairsOf(rows) ==
    IF rows = <<>> THEN <<>>
    ELSE (IF FieldTable("field_link_to_detailed_guide", Head(rows).nid) = <<>> THEN <<>>
          ELSE <<[k |-> Head(rows).nid,
                  v |-> FieldTable("field_link_to_detailed_guide", Head(rows).nid)[
                            Len(FieldTable("field_link_to_detailed_guide",
                                           Head(rows).nid))].target_id]>>)
         \o PairsOf(Tail(rows))

find_subject_guide_pairs == PairsOf(NodeTable)

\* load_subpage_data: the other pages of the book whose root is nid.
RECURSIVE SubpagesOfBook(_, _)
SubpagesOfBook(rows, nid) ==
    IF rows = <<>> THEN <<>>
    ELSE (IF Head(rows).bid = nid /\ Head(rows).nid # nid THEN <<Head(rows).nid>> ELSE <<>>)
         \o SubpagesOfBook(Tail(rows), nid)

load_subpage_data(nid) == SubpagesOfBook(BookTable, nid)

(***************************************************************************)
(* Python dicts whose iteration order the code relies on: a sequence of    *)
(* [k, v] entries in insertion order.                                      *)
(***************************************************************************)
DictKeys(d) == {d[i].k : i \in 1..Len(d)}

DictIndex(d, k) == CHOOSE i \in 1..Len(d) : d[i].k = k

DictGet(d, k) == d[DictIndex(d, k)].v

\* d[k] = v: a key the dict holds keeps its place and takes the new value.
DictSet(d, k, v) ==
    IF k \in DictKeys(d) THEN [d EXCEPT ![DictIndex(d, k)].v = v]
    ELSE Append(d, [k |-> k, v |-> v])

\* DictUpdate with the entries of e lost.
DictUpdate_Dropped(d, e) == d

\* d.update(e)
RECURSIVE DictUpdate(_, _)
DictUpdate(d, e) ==
    IF e = <<>> THEN d ELSE DictUpdate(DictSet(d, Head(e).k, Head(e).v), Tail(e))

\* {**existing, **new}: on a shared key the entry of new wins.
Merged(existing, new) ==
    [n \in (DOMAIN existing) \cup DictKeys(new) |->
        IF n \in DictKeys(new) THEN DictGet(new, n) ELSE existing[n]]

(***************************************************************************)
(* The command line and the mapping file.                                  *)
(***************************************************************************)
KnownBundles ==
    {"news", "database", "geospatial_data", "policy", "transcript", "guide",
     "service", "help_guide", "course_guide", "collection_page", "find_guide",
     "page", "survey_data", "subject_detailed_guide", "subject_quick_guide"}

\* The bundle names the runs of the model are started with.
BundleChoices ==
    {"page", "database", "service", "guide", "news", "help_guide",
     "subject_quick_guide", "subject_detailed_guide", "bogus"}

\* The keys the section d7_nid_to_d9_uuid is drawn from.
MapKeyChoices == {<<"1">>, <<"3">>, <<"0", "4">>, <<"1", "6">>}

\* The taxonomy terms of the mapping file: all those the legacy rows use, or
\* term 7 left out.
TidKeyChoices == {{<<"7">>, <<"9">>}, {<<"9">>}}

\* The target type of a legacy node type.
D9Type(type) ==
    IF type = "book" THEN "node--service"
    ELSE IF type = "service" THEN "node--service"
    ELSE IF type = "page" THEN "node--page"
    ELSE IF type \in {"guide", "help_guide", "subject_quick_guide",
                      "subject_detailed_guide"} THEN "node--guide"
    ELSE IF type = "news" THEN "node--news"
    ELSE "node--database"

\* drupal.get of the entity the mapping names for the key: the entity that an
\* earlier run created for that legacy node.
CarriedOver(key) == RemoteObj(D9Type(load_type(ParseInt(key))), 100 + ParseInt(key))

\* nid_to_obj of load_objs_from_mapping: keyed by int(nid).
load_objs_from_mapping(keys) ==
    [n \in {ParseInt(key) : key \in keys} |->
        CarriedOver(CHOOSE key \in keys : ParseInt(key) = n)]

(***************************************************************************)
(* Node selection of the create phase.                                     *)
(***************************************************************************)
\* The nids of load_objs_from_database(connection, bundle, ...), in row order.
RECURSIVE NidsOfType(_, _)
NidsOfType(rows, bundle) ==
    IF rows = <<>> THEN <<>>
    ELSE (IF Head(rows).type = bundle THEN <<Head(rows).nid>> ELSE <<>>)
         \o NidsOfType(Tail(rows), bundle)

load_objs_from_database(bundle) == NidsOfType(NodeTable, bundle)

InSeq(x, seq) == \E i \in 1..Len(seq) : seq[i] = x

\* BookPagesOf with the WHERE clause dropped: the pages of every book.
RECURSIVE BookPagesOf_AnyBook(_, _, _)
BookPagesOf_AnyBook(rows, bid, books) ==
    IF rows = <<>> THEN <<>>
    ELSE (IF InSeq(Head(rows).nid, books) THEN <<Head(rows).nid>> ELSE <<>>)
         \o BookPagesOf_AnyBook(Tail(rows), bid, books)

\* SELECT `nid` FROM `book` WHERE `bid` = bid, kept when the nid is a book node.
RECURSIVE BookPagesOf(_, _, _)
BookPagesOf(rows, bid, books) ==
    IF rows = <<>> THEN <<>>
    ELSE (IF Head(rows).bid = bid /\ InSeq(Head(rows).nid, books)
          THEN <<Head(rows).nid>> ELSE <<>>)
         \o BookPagesOf(Tail(rows), bid, books)

\* subpages: the book pages of every service node, service by service.
RECURSIVE Subpages(_, _)
Subpages(services, books) ==
    IF services = <<>> THEN <<>>
    ELSE BookPagesOf(BookTable, Head(services), books) \o Subpages(Tail(services), books)

\* The keys of a dict built by inserting the nids in order: a nid inserted
\* again keeps its first place.
RECURSIVE KeysInOrder(_)
KeysInOrder(nids) ==
    IF nids = <<>> THEN <<>>
    ELSE IF InSeq(nids[Len(nids)], SubSeq(nids, 1, Len(nids) - 1))
    THEN KeysInOrder(SubSeq(nids, 1, Len(nids) - 1))
    ELSE Append(KeysInOrder(SubSeq(nids, 1, Len(nids) - 1)), nids[Len(nids)])

\* if str(nid) not in mapping["d7_nid_to_d9_uuid"]
RECURSIVE NotInMapping(_, _)
NotInMapping(nids, keys) ==
    IF nids = <<>> THEN <<>>
    ELSE (IF IntToStr(Head(nids)) \in keys THEN <<>> ELSE <<Head(nids)>>)
         \o NotInMapping(Tail(nids), keys)

\* ServiceNids with the book pages put before the services.
ServiceNids_PagesFirst ==
    KeysInOrder(Subpages(load_objs_from_database("service"),
                         load_objs_from_database("book"))
                \o load_objs_from_database("service"))

\* The nids migrate_service_nodes posts, in order: the services, then their
\* book pages.
ServiceNids ==
    KeysInOrder(load_objs_from_database("service")
                \o Subpages(load_objs_from_database("service"),
                            load_objs_from_database("book")))

\* The nids of the list do_not_migrate of migrate_help_guide_nodes that the
\* legacy database of the run holds.
do_not_migrate == {IntToStr(113)}

\* if node_newer_than_cutoff(connection, nid, cutoff)
RECURSIVE NewerThanCutoff(_)
NewerThanCutoff(nids) ==
    IF nids = <<>> THEN <<>>
    ELSE (IF node_newer_than_cutoff(Head(nids), Cutoff) THEN <<Head(nids)>> ELSE <<>>)
         \o NewerThanCutoff(Tail(nids))

\* str(nid) of the values of subject_guide_quick_to_detailed.
PairedDetailed(pairs) == {IntToStr(pairs[i].v) : i \in 1..Len(pairs)}

\* Candidates with the tests of the news, help_guide and
\* subject_detailed_guide bundles left out.
Candidates_All(bundle) ==
    IF bundle = "service" THEN ServiceNids ELSE load_objs_from_database(bundle)

\* The nids of the bundle that pass the bundle's own test.
Candidates(bundle) ==
    IF bundle = "service" THEN ServiceNids
    ELSE IF bundle = "news" THEN NewerThanCutoff(load_objs_from_database(bundle))
    ELSE IF bundle = "help_guide"
    THEN NotInMapping(load_objs_from_database(bundle), do_not_migrate)
    ELSE IF bundle = "subject_detailed_guide"
    THEN NotInMapping(load_objs_from_database(bundle),
                      PairedDetailed(find_subject_guide_pairs))
    ELSE load_objs_from_database(bundle)

\* The nids migrate_<bundle>_nodes posts, in order.
NodesToPost(bundle, keys) == NotInMapping(Candidates(bundle), keys)

(***************************************************************************)
(* The field phase.  migrate_<type>_fields is a sequence of steps in       *)
(* source order.  A step either fills one key of the update's attributes   *)
(* or relationships, or creates one paragraph; r is the result of the      *)
(* transcoder call behind it.                                              *)
(***************************************************************************)
AttrStep(name, r) ==
    [kind |-> "attribute", name |-> name, r |-> r, type |-> "", parent_id |-> 0]

RelStep(name, r) ==
    [kind |-> "relationship", name |-> name, r |-> r, type |-> "", parent_id |-> 0]

\* The relationship whose data are the references to the paragraphs created
\* for it.
ParagraphsStep(name) ==
    [kind |-> "paragraphs", name |-> name, r |-> Ok(<<>>), type |-> "", parent_id |-> 0]

\* drupal.post of a paragraph for the relationship name; r is what building
\* the paragraph's own fields gave.
PostStep(name, type, parent_id, r) ==
    [kind |-> "post", name |-> name, r |-> r, type |-> type, parent_id |-> parent_id]

\* json.dumps of a Python bool.
JsonBool(b) == IF b THEN <<"t", "r", "u", "e">> ELSE <<"f", "a", "l", "s", "e">>

S_Help == <<"H", "e", "l", "p">>

S_Subject == <<"S", "u", "b", "j", "e", "c", "t">>

\* drupal.patch(patch_ready_obj) between two migrate_<type>_fields calls for
\* one record.
PatchStep == [kind |-> "patch", name |-> "", r |-> Ok(<<>>), type |-> "", parent_id |-> 0]

\* One paragraph--text_area per row of the field.
TextAreaParagraphs(rows, name, nid, nid_to_obj) ==
    [i \in 1..Len(rows) |->
        PostStep(name, "paragraph--text_area", nid_to_obj[nid].nid,
                 FormattedItem(clean_text(rows[i].value, nid_to_obj, nid),
                               convert_text_format(rows[i].format)))]

text_with_summary_to_text_area_paragraph(fieldname, parent_field_name, nid, nid_to_obj) ==
    TextAreaParagraphs(load_field_data(fieldname, nid), parent_field_name, nid, nid_to_obj)

\* One paragraph--accordion per field-collection item; the item's id is
\* what the text transcoder is given as the originating nid.
AccordionParagraphs(rows, name, nid, nid_to_obj) ==
    [i \in 1..Len(rows) |->
        PostStep(name, "paragraph--accordion", nid_to_obj[nid].nid,
                 formatted_text_to_formatted_text(
                     load_field_data("field_detailed_guide_section_bla", rows[i].target_id),
                     rows[i].target_id, nid_to_obj))]

detailed_guide_section_to_accordion_paragraph(parent_field_name, nid, nid_to_obj) ==
    AccordionParagraphs(load_field_data("field_detailed_guide_section", nid),
                        parent_field_name, nid, nid_to_obj)

\* One paragraph--from_library per service point; the referenced node is
\* looked up in the registry.
FromLibraryParagraphs(rows, nid, nid_to_obj) ==
    [i \in 1..Len(rows) |->
        PostStep("field_contact_service_point", "paragraph--from_library",
                 nid_to_obj[nid].nid, ReferenceItem(rows[i].target_id, nid_to_obj))]

contact_service_point(nid, nid_to_obj) ==
    FromLibraryParagraphs(load_field_data("field_service_point", nid), nid, nid_to_obj)

migrate_page_fields(nid, nid_to_obj) ==
    <<AttrStep("body",
               text_with_summary_to_text_with_summary(
                   load_field_data("body", nid), nid, nid_to_obj)),
      AttrStep("field_content_last_reviewed",
               Ok(content_reviewed(load_field_data("field_content_reviewed", nid))))>>

migrate_guide_fields(nid, nid_to_obj) ==
    <<AttrStep("field_content_last_reviewed",
               Ok(content_reviewed(load_field_data("field_content_reviewed", nid)))),
      ParagraphsStep("field_guide_section")>>
    \o text_with_summary_to_text_area_paragraph("body", "field_guide_section", nid, nid_to_obj)
    \o detailed_guide_section_to_accordion_paragraph("field_guide_section", nid, nid_to_obj)
    \o <<AttrStep("field_guide_type", Ok(S_Help))>>

ServiceBody(node_type, nid, nid_to_obj) ==
    IF node_type = "book"
    THEN text_with_summary_to_text_with_summary(load_field_data("body", nid), nid, nid_to_obj)
    ELSE formatted_text_to_formatted_text(
             load_field_data("field_full_description", nid), nid, nid_to_obj)

migrate_service_fields(nid, nid_to_obj, tids) ==
    <<AttrStep("field_service_action_link",
               link_to_link(load_field_data("field_action_link", nid), nid, nid_to_obj)),
      AttrStep("body", ServiceBody(load_type(nid), nid, nid_to_obj))>>
    \o contact_service_point(nid, nid_to_obj)
    \o <<ParagraphsStep("field_contact_service_point"),
         AttrStep("field_content_last_reviewed",
                  Ok(content_reviewed(load_field_data("field_content_reviewed", nid)))),
         AttrStep("field_eligibility",
                  Ok(text_list_to_text_list(load_field_data("field_service_eligibility", nid)))),
         RelStep("field_service_category",
                 taxonomy_term_reference_to_taxonomy_term_reference(
                     load_field_data("field_service_category", nid), tids)),
         AttrStep("field_short_description",
                  formatted_text_to_formatted_text(
                      load_field_data("field_brief_description", nid), nid, nid_to_obj))>>

PlainAttr(name, fieldname, nid) ==
    AttrStep(name, Ok(text_to_plain_text(load_field_data(fieldname, nid))))

FormattedAttr(name, fieldname, nid, nid_to_obj) ==
    AttrStep(name,
             formatted_text_to_formatted_text(load_field_data(fieldname, nid), nid, nid_to_obj))

TermRel(name, fieldname, nid, tids) ==
    RelStep(name,
            taxonomy_term_reference_to_taxonomy_term_reference(
                load_field_data(fieldname, nid), tids))

migrate_database_fields(nid, nid_to_obj, tids) ==
    <<FormattedAttr("field_database_advisory", "field_database_advisory", nid, nid_to_obj),
      PlainAttr("field_database_alt_spellings", "field_alternate_spellings", nid),
      PlainAttr("field_database_alternate_titles", "field_database_alternate_titles", nid),
      PlainAttr("field_database_author", "field_database_author", nid),
      AttrStep("field_database_authorized_users",
               Ok(text_list_to_text_list(
                      load_field_data("field_database_authorized_users", nid)))),
      FormattedAttr("field_database_brief_description",
                    "field_database_brief_description", nid, nid_to_obj),
      AttrStep("field_content_last_reviewed",
               Ok(content_reviewed(load_field_data("field_content_reviewed", nid)))),
      PlainAttr("field_database_date_coverage", "field_database_date_coverage", nid),
      FormattedAttr("field_database_description", "field_database_description",
                    nid, nid_to_obj),
      AttrStep("field_database_fulltext",
               Ok(JsonBool(database_fulltext(
                      load_field_data("field_database_fulltext", nid))))),
      FormattedAttr("field_database_important_details", "field_database_notes",
                    nid, nid_to_obj),
      AttrStep("field_database_link",
               link_to_link(load_field_data("field_database_link", nid), nid, nid_to_obj)),
      PlainAttr("field_database_publisher", "field_database_publisher", nid),
      TermRel("field_database_subject", "field_subject", nid, tids),
      AttrStep("field_database_trial_feedback",
               Ok(JsonBool(database_trial_feedback(
                      load_field_data("field_trial_feedback", nid))))),
      TermRel("field_database_type", "field_database_type", nid, tids)>>

migrate_news_fields(nid, nid_to_obj) ==
    <<AttrStep("body",
               text_with_summary_to_text_with_summary(
                   load_field_data("body", nid), nid, nid_to_obj)),
      AttrStep("field_news_category",
               Ok(news_category(load_field_data("field_news_category", nid))))>>

\* One paragraph--accordion per subpage; the subpage's body is transcoded
\* with the subpage as the originating node.
SubpageParagraphs(pages, name, nid, nid_to_obj) ==
    [i \in 1..Len(pages) |->
        PostStep(name, "paragraph--accordion", nid_to_obj[nid].nid,
                 formatted_text_to_formatted_text(
                     load_field_data("body", pages[i]), pages[i], nid_to_obj))]

subpage_to_accordion_paragraph(parent_field_name, nid, nid_to_obj) ==
    SubpageParagraphs(load_subpage_data(nid), parent_field_name, nid, nid_to_obj)

migrate_help_guide_fields(nid, nid_to_obj) ==
    contact_service_point(nid, nid_to_obj)
    \o <<ParagraphsStep("field_contact_service_point"),
         AttrStep("field_content_last_reviewed",
                  Ok(content_reviewed(load_field_data("field_content_reviewed", nid)))),
         ParagraphsStep("field_guide_section")>>
    \o text_with_summary_to_text_area_paragraph("body", "field_guide_section", nid, nid_to_obj)
    \o subpage_to_accordion_paragraph("field_guide_section", nid, nid_to_obj)
    \o <<AttrStep("field_guide_type", Ok(S_Help))>>

\* One paragraph--key_resources per field-collection item: its databases
\* are looked up in the registry, its links are rewritten.
KeyResourceParagraphs(rows, name, nid, nid_to_obj) ==
    [i \in 1..Len(rows) |->
        PostStep(name, "paragraph--key_resources", nid_to_obj[nid].nid,
                 Then(entity_reference_to_entity_reference(
                          load_field_data("field_key_resource_databases", rows[i].target_id),
                          nid_to_obj),
                      Then(link_to_link(
                               load_field_data("field_key_resource_link", rows[i].target_id),
                               rows[i].target_id, nid_to_obj),
                           Ok(<<>>))))]

key_resources_to_key_resources_paragraph(parent_field_name, nid, nid_to_obj) ==
    KeyResourceParagraphs(load_field_data("field_key_resources", nid),
                          parent_field_name, nid, nid_to_obj)

migrate_subject_quick_guide_fields(nid, nid_to_obj, tids) ==
    <<AttrStep("field_content_last_reviewed",
               Ok(content_reviewed(load_field_data("field_content_reviewed", nid)))),
      ParagraphsStep("field_key_resources")>>
    \o key_resources_to_key_resources_paragraph("field_key_resources", nid, nid_to_obj)
    \o <<AttrStep("field_guide_type", Ok(S_Subject)),
         TermRel("field_guide_subject_category", "field_subject_category", nid, tids)>>

migrate_subject_detailed_guide_fields(nid, nid_to_obj, tids) ==
    <<AttrStep("field_content_last_reviewed",
               Ok(content_reviewed(load_field_data("field_content_reviewed", nid)))),
      ParagraphsStep("field_guide_section")>>
    \o text_with_summary_to_text_area_paragraph("body", "field_guide_section", nid, nid_to_obj)
    \o detailed_guide_section_to_accordion_paragraph("field_guide_section", nid, nid_to_obj)
    \o <<AttrStep("field_guide_type", Ok(S_Subject)),
         TermRel("field_guide_subject_category", "field_subject_category", nid, tids)>>

\* {**nid_to_obj, **subject_guide_detailed_nid_to_obj}: every detailed guide
\* of a pair stands for the entity created for its quick guide.
WithDetailed(nid_to_obj, pairs, new) ==
    [n \in (DOMAIN nid_to_obj) \cup {pairs[i].v : i \in 1..Len(pairs)} |->
        IF \E i \in 1..Len(pairs) : pairs[i].v = n
        THEN DictGet(new, pairs[CHOOSE i \in 1..Len(pairs) :
                               /\ pairs[i].v = n
                               /\ \A j \in (i + 1)..Len(pairs) : pairs[j].v # n].k)
        ELSE nid_to_obj[n]]

\* A quick guide that is linked to a detailed guide is updated a second
\* time, with the fields of the detailed guide.
SubjectGuideSteps(nid, nid_to_obj, tids, pairs, new) ==
    migrate_subject_quick_guide_fields(nid, nid_to_obj, tids)
    \o (IF nid \in DictKeys(pairs)
        THEN <<PatchStep>>
             \o migrate_subject_detailed_guide_fields(
                    DictGet(pairs, nid), WithDetailed(nid_to_obj, pairs, new), tids)
        ELSE <<>>)

\* The dispatch of the second loop of cli() on the legacy node type.
FieldSteps(node_type, nid, nid_to_obj, tids, new) ==
    IF node_type = "page" THEN migrate_page_fields(nid, nid_to_obj)
    ELSE IF node_type = "database" THEN migrate_database_fields(nid, nid_to_obj, tids)
    ELSE IF node_type = "guide" THEN migrate_guide_fields(nid, nid_to_obj)
    ELSE IF node_type = "news" THEN migrate_news_fields(nid, nid_to_obj)
    ELSE IF node_type = "help_guide" THEN migrate_help_guide_fields(nid, nid_to_obj)
    ELSE IF node_type = "subject_detailed_guide"
    THEN migrate_subject_detailed_guide_fields(nid, nid_to_obj, tids)
    ELSE IF node_type = "subject_quick_guide"
    THEN SubjectGuideSteps(nid, nid_to_obj, tids, find_subject_guide_pairs, new)
    ELSE migrate_service_fields(nid, nid_to_obj, tids)

\* The steps of the update that is built now: those after the last update
\* already sent for the record, up to the next one.
RECURSIVE PartOf(_, _)
PartOf(steps, skip) ==
    IF steps = <<>> THEN <<>>
    ELSE IF Head(steps).kind = "patch"
    THEN (IF skip = 0 THEN <<>> ELSE PartOf(Tail(steps), skip - 1))
    ELSE (IF skip = 0 THEN <<Head(steps)>> ELSE <<>>) \o PartOf(Tail(steps), skip)

\* The number of updates in the steps.
RECURSIVE PatchesIn(_)
PatchesIn(steps) ==
    IF steps = <<>> THEN 0
    ELSE (IF Head(steps).kind = "patch" THEN 1 ELSE 0) + PatchesIn(Tail(steps))

\* The steps of the update the record is at, given what is still planned.
CurrentPart(steps, planned) == PartOf(steps, PatchesIn(steps) - PatchesIn(planned))

\* What of the steps reaches the target or ends the run before the update:
\* the paragraph creates, up to the first step that raises.
RECURSIVE PlanOf(_)
PlanOf(steps) ==
    IF steps = <<>> THEN <<>>
    ELSE IF Head(steps).r.exc # "none" THEN <<[Head(steps) EXCEPT !.kind = "raise"]>>
    ELSE IF Head(steps).kind \in {"post", "patch"} THEN <<Head(steps)>> \o PlanOf(Tail(steps))
    ELSE PlanOf(Tail(steps))

\* What the steps printed to stderr, up to the first step that raises.
RECURSIVE WarningsOf(_)
WarningsOf(steps) ==
    IF steps = <<>> THEN <<>>
    ELSE IF Head(steps).r.exc # "none" THEN Head(steps).r.warnings
    ELSE Head(steps).r.warnings \o WarningsOf(Tail(steps))

\* AttributesOf with the empty values left out.
RECURSIVE AttributesOf_NonEmpty(_)
AttributesOf_NonEmpty(steps) ==
    IF steps = <<>> THEN <<>>
    ELSE (IF Head(steps).kind = "attribute" /\ Head(steps).r.value # <<>>
          THEN <<[k |-> Head(steps).name, v |-> Head(steps).r.value]>> ELSE <<>>)
         \o AttributesOf_NonEmpty(Tail(steps))

\* patch_ready_obj["data"]["attributes"], a dict in insertion order.
RECURSIVE AttributesOf(_)
AttributesOf(steps) ==
    IF steps = <<>> THEN <<>>
    ELSE (IF Head(steps).kind = "attribute"
          THEN <<[k |-> Head(steps).name, v |-> Head(steps).r.value]>> ELSE <<>>)
         \o AttributesOf(Tail(steps))

\* The references to the paragraphs created for one relationship.
RECURSIVE RefsFor(_, _)
\* The variant that names a paragraph by the internal id of its entity where
\* the revision id belongs, used to show what the revision id takes part in.
RefsFor_EntityIdAsRevision(name, created) ==
    [i \in 1..Len(SelectSeq(created, LAMBDA c : c.name = name)) |->
        [type |-> SelectSeq(created, LAMBDA c : c.name = name)[i].obj.type,
         id |-> SelectSeq(created, LAMBDA c : c.name = name)[i].obj.id,
         target_revision_id |-> SelectSeq(created, LAMBDA c : c.name = name)[i].obj.nid]]

RefsFor(name, created) ==
    IF created = <<>> THEN <<>>
    ELSE (IF Head(created).name = name
          THEN <<[type |-> Head(created).obj.type, id |-> Head(created).obj.id,
                  target_revision_id |-> Head(created).obj.rev]>>
          ELSE <<>>)
         \o RefsFor(name, Tail(created))

\* patch_ready_obj["data"]["relationships"], a dict in insertion order.
RECURSIVE RelationshipsOf(_, _)
RelationshipsOf(steps, created) ==
    IF steps = <<>> THEN <<>>
    ELSE (IF Head(steps).kind = "relationship"
          THEN <<[k |-> Head(steps).name, v |-> Head(steps).r.value]>>
          ELSE IF Head(steps).kind = "paragraphs"
          THEN <<[k |-> Head(steps).name, v |-> RefsFor(Head(steps).name, created)]>>
          ELSE <<>>)
         \o RelationshipsOf(Tail(steps), created)

\* build_obj(type, uuid) with the attributes and relationships filled in.
PatchReadyObj(obj, steps, created) ==
    [type |-> obj.type, id |-> obj.id,
     attributes |-> AttributesOf(steps),
     relationships |-> RelationshipsOf(steps, created)]

(***************************************************************************)
(* The run of cli().                                                       *)
(***************************************************************************)
inputs == <<bundles, map_keys, type_keys, map_tids>>

NoObj == [type |-> "", id |-> 0, nid |-> 0, rev |-> 0]

NoPatch == [type |-> "", id |-> 0, attributes |-> <<>>, relationships |-> <<>>]

\* A create or update request as the target sees it: nid is the legacy node
\* a base entity is created for (0 for a paragraph), obj the entity created
\* or updated, ok whether the response was a success.
Request(method, type, nid, parent_id, obj, ok) ==
    [method |-> method, type |-> type, nid |-> nid, parent_id |-> parent_id,
     obj |-> obj, ok |-> ok]

\* Abort with the connection left as it is.
Abort_LeavesOpen(exc) ==
    /\ pc' = "done"
    /\ exit_status' = "error"
    /\ failure' = exc
    /\ connection' = connection

\* sys.exit or an uncaught exception: the run ends with a non-zero status;
\* inside the with block the connection is closed on the way out.
Abort(exc) ==
    /\ pc' = "done"
    /\ exit_status' = "error"
    /\ failure' = exc
    /\ connection' = IF connection = "open" THEN "closed" ELSE connection

\* The variant that looks at the first bundle name only, used to show what the
\* check of every name takes part in.
ValidateBundles_FirstOnly ==
    /\ pc = "start"
    /\ IF bundles # <<>> /\ bundles[1] \notin KnownBundles
       THEN Abort("SystemExit")
       ELSE pc' = "mapping" /\ UNCHANGED <<exit_status, failure, connection>>
    /\ UNCHANGED <<inputs, nid_to_existing_obj, nid_to_new_obj, bi, queue, batch, fi,
                   plan, rels, reqs, served, last_patch, stderr, report>>
    /\ UNCHANGED <<uvars, fvars, avars>>

\* The bundle names are checked before anything else is done.
ValidateBundles ==
    /\ pc = "start"
    /\ IF \E i \in 1..Len(bundles) : bundles[i] \notin KnownBundles
       THEN Abort("SystemExit")
       ELSE pc' = "mapping" /\ UNCHANGED <<exit_status, failure, connection>>
    /\ UNCHANGED <<inputs, nid_to_existing_obj, nid_to_new_obj, bi, queue, batch, fi,
                   plan, rels, reqs, served, last_patch, stderr, report>>
    /\ UNCHANGED <<uvars, fvars, avars>>

\* The variant that leaves out the keys d7_nid_to_d9_type lacks and goes on,
\* used to show what the exit takes part in.
LoadMapping_SkipsUntyped ==
    /\ pc = "mapping"
    /\ nid_to_existing_obj' = load_objs_from_mapping(map_keys \cap type_keys)
    /\ pc' = "connect"
    /\ UNCHANGED <<exit_status, failure, connection>>
    /\ UNCHANGED <<inputs, nid_to_new_obj, bi, queue, batch, fi,
                   plan, rels, reqs, served, last_patch, stderr, report>>
    /\ UNCHANGED <<uvars, fvars, avars>>

\* drupal.test() and load_objs_from_mapping: a key of d7_nid_to_d9_uuid that
\* d7_nid_to_d9_type lacks ends the run.
LoadMapping ==
    /\ pc = "mapping"
    /\ IF map_keys \subseteq type_keys
       THEN /\ nid_to_existing_obj' = load_objs_from_mapping(map_keys)
            /\ pc' = "connect"
            /\ UNCHANGED <<exit_status, failure, connection>>
       ELSE Abort("SystemExit") /\ UNCHANGED nid_to_existing_obj
    /\ UNCHANGED <<inputs, nid_to_new_obj, bi, queue, batch, fi,
                   plan, rels, reqs, served, last_patch, stderr, report>>
    /\ UNCHANGED <<uvars, fvars, avars>>

\* The target does not answer the test, or refuses a GET of a mapped entity.
ApiFails ==
    /\ pc = "mapping"
    /\ \E exc \in {"SystemExit", "RequestException"} :
           /\ exc = "RequestException" => map_keys \cap type_keys # {}
           /\ Abort(exc)
    /\ UNCHANGED <<inputs, nid_to_existing_obj, nid_to_new_obj, bi, queue, batch, fi,
                   plan, rels, reqs, served, last_patch, stderr, report>>
    /\ UNCHANGED <<uvars, fvars, avars>>

\* pymysql.connect, then the with block is entered.
Connect ==
    /\ pc = "connect"
    /\ connection' = "open"
    /\ pc' = "bundle"
    /\ bi' = 1
    /\ UNCHANGED <<inputs, nid_to_existing_obj, nid_to_new_obj, queue, batch, fi,
                   plan, rels, reqs, served, last_patch, stderr, report,
                   exit_status, failure>>
    /\ UNCHANGED <<uvars, fvars, avars>>

ConnectFails ==
    /\ pc = "connect"
    /\ Abort("OperationalError")
    /\ UNCHANGED <<inputs, nid_to_existing_obj, nid_to_new_obj, bi, queue, batch, fi,
                   plan, rels, reqs, served, last_patch, stderr, report>>
    /\ UNCHANGED <<uvars, fvars, avars>>

\* migrate_<bundle>_nodes selects the nodes it will create.
StartBundle ==
    /\ pc = "bundle"
    /\ bi <= Len(bundles)
    /\ queue' = NodesToPost(bundles[bi], map_keys)
    /\ batch' = <<>>
    /\ pc' = "posting"
    /\ UNCHANGED <<inputs, connection, nid_to_existing_obj, nid_to_new_obj, bi, fi,
                   plan, rels, reqs, served, last_patch, stderr, report,
                   exit_status, failure>>
    /\ UNCHANGED <<uvars, fvars, avars>>

\* The entry the dict comprehension adds for nid once drupal.post returned.
Created(nid, obj) ==
    /\ batch' = DictSet(batch, nid, obj)
    /\ reqs' = Append(reqs, Request("POST", obj.type, nid, 0, obj, TRUE))

\* nid: drupal.post(obj), the response is a success.
PostNode ==
    /\ pc = "posting"
    /\ queue # <<>>
    /\ Created(Head(queue), RemoteObj(D9Type(load_type(Head(queue))), served + 1))
    /\ served' = served + 1
    /\ queue' = Tail(queue)
    /\ UNCHANGED <<inputs, pc, connection, nid_to_existing_obj, nid_to_new_obj, bi, fi,
                   plan, rels, last_patch, stderr, report, exit_status, failure>>
    /\ UNCHANGED <<uvars, fvars, avars>>

\* PostNodeFails with the exception swallowed: the node is left out and the
\* loop goes on.
PostNodeFails_Skips ==
    /\ pc = "posting"
    /\ queue # <<>>
    /\ reqs' = Append(reqs, Request("POST", D9Type(load_type(Head(queue))),
                                    Head(queue), 0, NoObj, FALSE))
    /\ queue' = Tail(queue)
    /\ UNCHANGED <<inputs, pc, connection, nid_to_existing_obj, nid_to_new_obj, bi, batch,
                   fi, plan, rels, served, last_patch, stderr, report, exit_status,
                   failure>>
    /\ UNCHANGED <<uvars, fvars, avars>>

\* nid: drupal.post(obj), _validate_resp raises.
PostNodeFails ==
    /\ pc = "posting"
    /\ queue # <<>>
    /\ reqs' = Append(reqs, Request("POST", D9Type(load_type(Head(queue))),
                                    Head(queue), 0, NoObj, FALSE))
    /\ Abort("RequestException")
    /\ UNCHANGED <<inputs, nid_to_existing_obj, nid_to_new_obj, bi, queue, batch, fi,
                   plan, rels, served, last_patch, stderr, report>>
    /\ UNCHANGED <<uvars, fvars, avars>>

\* The loop after migrate_subject_quick_guide_nodes reads
\* nid_to_new_obj[quick_nid] for every pair: a quick guide that this run did
\* not create raises KeyError.
PairsRegistered(bundle, pairs, new) ==
    bundle = "subject_quick_guide" => DictKeys(pairs) \subseteq DictKeys(new)

\* nid_to_new_obj.update(migrate_<bundle>_nodes(...)), and for the bundle
\* subject_quick_guide the loop over the pairs.
FinishBundle ==
    /\ pc = "posting"
    /\ queue = <<>>
    /\ nid_to_new_obj' = DictUpdate(nid_to_new_obj, batch)
    /\ batch' = <<>>
    /\ IF PairsRegistered(bundles[bi], find_subject_guide_pairs,
                          DictUpdate(nid_to_new_obj, batch))
       THEN /\ bi' = bi + 1
            /\ pc' = "bundle"
            /\ UNCHANGED <<connection, exit_status, failure>>
       ELSE Abort("KeyError") /\ UNCHANGED bi
    /\ UNCHANGED <<inputs, nid_to_existing_obj, queue, fi,
                   plan, rels, reqs, served, last_patch, stderr, report>>
    /\ UNCHANGED <<uvars, fvars, avars>>

\* The variant that begins the second loop once the first bundle is done, used
\* to show what the end of the first loop takes part in.
BeginFields_AfterFirstBundle ==
    /\ pc = "bundle"
    /\ bi > 1
    /\ pc' = "fields"
    /\ fi' = 1
    /\ UNCHANGED <<inputs, connection, nid_to_existing_obj, nid_to_new_obj, bi, queue,
                   batch, plan, rels, reqs, served, last_patch, stderr, report,
                   exit_status, failure>>
    /\ UNCHANGED <<uvars, fvars, avars>>

\* The first loop is over, the second begins.
BeginFields ==
    /\ pc = "bundle"
    /\ bi > Len(bundles)
    /\ pc' = "fields"
    /\ fi' = 1
    /\ UNCHANGED <<inputs, connection, nid_to_existing_obj, nid_to_new_obj, bi, queue,
                   batch, plan, rels, reqs, served, last_patch, stderr, report,
                   exit_status, failure>>
    /\ UNCHANGED <<uvars, fvars, avars>>

\* The steps of migrate_<type>_fields for the record the second loop is at.
RecordSteps ==
    FieldSteps(load_type(nid_to_new_obj[fi].k), nid_to_new_obj[fi].k,
               Merged(nid_to_existing_obj, nid_to_new_obj), map_tids, nid_to_new_obj)

Planned(steps) ==
    /\ plan' = PlanOf(steps)
    /\ stderr' = stderr \o WarningsOf(steps)

\* migrate_<type>_fields is entered for the next record of nid_to_new_obj.
StartRecord ==
    /\ pc = "fields"
    /\ fi <= Len(nid_to_new_obj)
    /\ Planned(RecordSteps)
    /\ rels' = <<>>
    /\ pc' = "record"
    /\ UNCHANGED <<inputs, connection, nid_to_existing_obj, nid_to_new_obj, bi, queue,
                   batch, fi, reqs, served, last_patch, report, exit_status, failure>>
    /\ UNCHANGED <<uvars, fvars, avars>>

ParagraphCreated(step, obj) ==
    /\ rels' = Append(rels, [name |-> step.name, obj |-> obj, sent |-> step.r.value])
    /\ reqs' = Append(reqs, Request("POST", step.type, 0, step.parent_id, obj, TRUE))

\* paragraph = drupal.post(paragraph), the response is a success.
PostParagraph ==
    /\ pc = "record"
    /\ plan # <<>>
    /\ Head(plan).kind = "post"
    /\ ParagraphCreated(Head(plan), RemoteObj(Head(plan).type, served + 1))
    /\ served' = served + 1
    /\ plan' = Tail(plan)
    /\ UNCHANGED <<inputs, pc, connection, nid_to_existing_obj, nid_to_new_obj, bi, queue,
                   batch, fi, last_patch, stderr, report, exit_status, failure>>
    /\ UNCHANGED <<uvars, fvars, avars>>

\* paragraph = drupal.post(paragraph), _validate_resp raises.
PostParagraphFails ==
    /\ pc = "record"
    /\ plan # <<>>
    /\ Head(plan).kind = "post"
    /\ reqs' = Append(reqs, Request("POST", Head(plan).type, 0, Head(plan).parent_id,
                                    NoObj, FALSE))
    /\ Abort("RequestException")
    /\ UNCHANGED <<inputs, nid_to_existing_obj, nid_to_new_obj, bi, queue, batch, fi,
                   plan, rels, served, last_patch, stderr, report>>
    /\ UNCHANGED <<uvars, fvars, avars>>

\* A transcoder raises: nothing in cli() catches it.
FieldRaises ==
    /\ pc = "record"
    /\ plan # <<>>
    /\ Head(plan).kind = "raise"
    /\ Abort(Head(plan).r.exc)
    /\ UNCHANGED <<inputs, nid_to_existing_obj, nid_to_new_obj, bi, queue, batch, fi,
                   plan, rels, reqs, served, last_patch, stderr, report>>
    /\ UNCHANGED <<uvars, fvars, avars>>

\* Patched with the request held back when the update carries no value.
Patched_UnlessEmpty(body, obj) ==
    IF /\ \A i \in 1..Len(body.attributes) : body.attributes[i].v = <<>>
       /\ \A i \in 1..Len(body.relationships) : body.relationships[i].v = <<>>
    THEN UNCHANGED <<last_patch, reqs>>
    ELSE /\ last_patch' = body
         /\ reqs' = Append(reqs, Request("PATCH", obj.type, nid_to_new_obj[fi].k, 0, obj, TRUE))

\* The update request as the target sees it.
Patched(body, obj) ==
    /\ last_patch' = body
    /\ reqs' = Append(reqs, Request("PATCH", obj.type, nid_to_new_obj[fi].k, 0, obj, TRUE))

\* All steps before the next drupal.patch of the record are done.
AtPatch(planned) == IF planned = <<>> THEN TRUE ELSE Head(planned).kind = "patch"

\* drupal.patch(patch_ready_obj), the response is a success: the record is
\* done, or its second migrate_<type>_fields call begins.
PatchRecord ==
    /\ pc = "record"
    /\ AtPatch(plan)
    /\ Patched(PatchReadyObj(nid_to_new_obj[fi].v, CurrentPart(RecordSteps, plan), rels),
               nid_to_new_obj[fi].v)
    /\ IF plan = <<>>
       THEN fi' = fi + 1 /\ pc' = "fields" /\ UNCHANGED <<plan, rels>>
       ELSE plan' = Tail(plan) /\ rels' = <<>> /\ UNCHANGED <<fi, pc>>
    /\ UNCHANGED <<inputs, connection, nid_to_existing_obj, nid_to_new_obj, bi, queue,
                   batch, served, stderr, report, exit_status, failure>>
    /\ UNCHANGED <<uvars, fvars, avars>>

\* drupal.patch(patch_ready_obj), _validate_resp raises.
PatchFails ==
    /\ pc = "record"
    /\ AtPatch(plan)
    /\ last_patch' = PatchReadyObj(nid_to_new_obj[fi].v, CurrentPart(RecordSteps, plan), rels)
    /\ reqs' = Append(reqs, Request("PATCH", nid_to_new_obj[fi].v.type,
                                    nid_to_new_obj[fi].k, 0, nid_to_new_obj[fi].v, FALSE))
    /\ Abort("RequestException")
    /\ UNCHANGED <<inputs, nid_to_existing_obj, nid_to_new_obj, bi, queue, batch, fi,
                   plan, rels, served, stderr, report>>
    /\ UNCHANGED <<uvars, fvars, avars>>

\* The two lists of the report: nid = uuid and nid = type of every entry of
\* nid_to_new_obj; then the with block is left.
Report ==
    /\ pc = "fields"
    /\ fi > Len(nid_to_new_obj)
    /\ report' = [i \in 1..Len(nid_to_new_obj) |->
                     [nid |-> nid_to_new_obj[i].k, id |-> nid_to_new_obj[i].v.id,
                      type |-> nid_to_new_obj[i].v.type]]
    /\ connection' = "closed"
    /\ exit_status' = "ok"
    /\ pc' = "done"
    /\ UNCHANGED <<inputs, nid_to_existing_obj, nid_to_new_obj, bi, queue, batch, fi,
                   plan, rels, reqs, served, last_patch, stderr, failure>>
    /\ UNCHANGED <<uvars, fvars, avars>>

(***************************************************************************)
(* The target API client: the validation of a request object and the three *)
(* request methods that take one.                                          *)
(***************************************************************************)
\* str.split(sep): the parts between the occurrences of sep, left to right.
RECURSIVE Split(_, _)
Split(s, sep) ==
    IF Occurrences(s, sep) = {} THEN <<s>>
    ELSE LET i == Least(Occurrences(s, sep))
         IN <<SubSeq(s, 1, i - 1)>> \o Split(DropFirst(s, i + Len(sep) - 1), sep)

S_dashdash == <<"-", "-">>

\* A request object: whether it is a dict, whether it has the key 'data', what
\* kind of value 'data' is ("dict", "list" for an empty list, "None"), and the
\* keys 'type' and 'id' of a 'data' that is a dict.
RequestObj(is_dict, has_data, data_kind, has_type, type, has_id, id) ==
    [is_dict |-> is_dict, has_data |-> has_data, data_kind |-> data_kind,
     has_type |-> has_type, type |-> type, has_id |-> has_id, id |-> id]

NoRequestObj == RequestObj(FALSE, FALSE, "None", FALSE, <<>>, FALSE, <<>>)

\* "type" in obj["data"]: a membership test, TypeError on a value that is no
\* container.
TypeKeyTest(obj) ==
    CASE obj.data_kind = "dict" -> IF obj.has_type THEN "in" ELSE "not in"
      [] obj.data_kind = "list" -> "not in"
      [] OTHER -> "TypeError"

\* The variant that lets a type of more than two parts pass, used to show what
\* the count of parts takes part in.
validate_obj_AtLeastTwoParts(obj) ==
    IF ~obj.is_dict THEN "ValidationError"
    ELSE IF ~obj.has_data THEN "ValidationError"
    ELSE IF TypeKeyTest(obj) = "TypeError" THEN "TypeError"
    ELSE IF TypeKeyTest(obj) = "not in" \/ obj.type = <<>> THEN "ValidationError"
    ELSE IF Len(Split(obj.type, S_dashdash)) < 2 THEN "ValidationError"
    ELSE "none"

\* The exception _validate_obj raises, "none" when it returns.
validate_obj(obj) ==
    IF ~obj.is_dict THEN "ValidationError"
    ELSE IF ~obj.has_data THEN "ValidationError"
    ELSE IF TypeKeyTest(obj) = "TypeError" THEN "TypeError"
    ELSE IF TypeKeyTest(obj) = "not in" \/ obj.type = <<>> THEN "ValidationError"
    ELSE IF Len(Split(obj.type, S_dashdash)) # 2 THEN "ValidationError"
    ELSE "none"

\* The exception _validate_obj_id raises, "none" when it returns.
validate_obj_id(obj) ==
    IF validate_obj(obj) # "none" THEN validate_obj(obj)
    ELSE IF ~obj.has_id \/ obj.id = <<>> THEN "ValidationError"
    ELSE "none"

get_entity_and_bundle(obj) == Split(obj.type, S_dashdash)

\* The path of the request below the target, field_or_uuid being <<>> for None.
build_url(entity, bundle, field_or_uuid) ==
    IF field_or_uuid # <<>> THEN entity \o S_slash \o bundle \o S_slash \o field_or_uuid
    ELSE entity \o S_slash \o bundle

NoCall == [method |-> "", exc |-> "none", sent |-> <<>>]

\* What a request method leaves behind: the exception of the validation and no
\* request, or the one request and the exception of a refused response.
Called(method, exc, obj, uuid, ok) ==
    IF exc # "none" THEN [method |-> method, exc |-> exc, sent |-> <<>>]
    ELSE [method |-> method,
          exc |-> IF ok THEN "none" ELSE "RequestException",
          sent |-> <<build_url(get_entity_and_bundle(obj)[1],
                               get_entity_and_bundle(obj)[2], uuid)>>]

get ==
    /\ a_pc = "input"
    /\ \E ok \in BOOLEAN :
         a_out' = Called("GET", validate_obj_id(a_obj), a_obj, a_obj.id, ok)
    /\ a_pc' = "done"
    /\ UNCHANGED a_obj
    /\ UNCHANGED <<uvars, fvars, dvars>>

post ==
    /\ a_pc = "input"
    /\ \E ok \in BOOLEAN :
         a_out' = Called("POST", validate_obj(a_obj), a_obj, <<>>, ok)
    /\ a_pc' = "done"
    /\ UNCHANGED a_obj
    /\ UNCHANGED <<uvars, fvars, dvars>>

patch ==
    /\ a_pc = "input"
    /\ \E ok \in BOOLEAN :
         a_out' = Called("PATCH", validate_obj_id(a_obj), a_obj, a_obj.id, ok)
    /\ a_pc' = "done"
    /\ UNCHANGED a_obj
    /\ UNCHANGED <<uvars, fvars, dvars>>

\* The request objects tried: type strings put together from fragments.
TypeParts == {<<"n">>, S_dashdash, <<"-">>, <<"p">>}

IdChoices == {<<>>, <<"u">>}

RequestObjs ==
    {RequestObj(FALSE, FALSE, "None", FALSE, <<>>, FALSE, <<>>),
     RequestObj(TRUE, FALSE, "None", FALSE, <<>>, FALSE, <<>>),
     RequestObj(TRUE, TRUE, "None", FALSE, <<>>, FALSE, <<>>),
     RequestObj(TRUE, TRUE, "list", FALSE, <<>>, FALSE, <<>>)}
    \cup {RequestObj(TRUE, TRUE, "dict", FALSE, <<>>, FALSE, <<>>),
          RequestObj(TRUE, TRUE, "dict", FALSE, <<>>, TRUE, <<"u">>)}
    \cup {RequestObj(TRUE, TRUE, "dict", TRUE, Concat(t), FALSE, <<>>) :
            t \in SeqsUpTo(TypeParts, MaxParts)}
    \cup {RequestObj(TRUE, TRUE, "dict", TRUE, Concat(t), TRUE, id) :
            t \in SeqsUpTo(TypeParts, MaxParts), id \in IdChoices}

Init ==
    /\ bundles \in SeqsUpTo(BundleChoices, MaxBundles)
    /\ map_keys \in SUBSET MapKeyChoices
    /\ type_keys \in {map_keys, map_keys \ {<<"1">>}}
    /\ map_tids \in TidKeyChoices
    /\ pc = "start" /\ connection = "unopened"
    /\ nid_to_existing_obj = <<>> /\ nid_to_new_obj = <<>>
    /\ bi = 0 /\ queue = <<>> /\ batch = <<>>
    /\ fi = 0 /\ plan = <<>> /\ rels = <<>>
    /\ reqs = <<>> /\ served = 0 /\ last_patch = NoPatch
    /\ stderr = <<>> /\ report = <<>>
    /\ exit_status = "running" /\ failure = "none"
    /\ u_pc = "idle" /\ u_in = <<>> /\ u_reg = <<>>
    /\ u_out = NoResult /\ u_again = NoResult
    /\ f_pc = "idle" /\ f_table = <<>> /\ f_out = NoOutput
    /\ a_pc = "idle" /\ a_obj = NoRequestObj /\ a_out = NoCall

Next ==
    \/ ValidateBundles \/ LoadMapping \/ ApiFails \/ Connect \/ ConnectFails
    \/ StartBundle \/ PostNode \/ PostNodeFails \/ FinishBundle \/ BeginFields
    \/ StartRecord \/ PostParagraph \/ PostParagraphFails \/ FieldRaises
    \/ PatchRecord \/ PatchFails \/ Report

Spec == Init /\ [][Next]_vars

\* cli() is one sequential program: while the create phase can take its next
\* step, a request that gets its response or the merge of the batch, it does.
FairSpec == Init /\ [][Next]_vars /\ WF_vars(PostNode \/ PostNodeFails) /\ WF_vars(FinishBundle)

InitUri ==
    /\ u_in \in UriInputs
    /\ u_reg \in RegChoices
    /\ u_pc = "input" /\ u_out = NoResult /\ u_again = NoResult
    /\ f_pc = "idle" /\ f_table = <<>> /\ f_out = NoOutput
    /\ a_pc = "idle" /\ a_obj = NoRequestObj /\ a_out = NoCall
    /\ pc = "idle" /\ bundles = <<>> /\ map_keys = {} /\ type_keys = {}
    /\ map_tids = {} /\ connection = "unopened"
    /\ nid_to_existing_obj = <<>> /\ nid_to_new_obj = <<>>
    /\ bi = 0 /\ queue = <<>> /\ batch = <<>>
    /\ fi = 0 /\ plan = <<>> /\ rels = <<>>
    /\ reqs = <<>> /\ served = 0 /\ last_patch = NoPatch
    /\ stderr = <<>> /\ report = <<>>
    /\ exit_status = "running" /\ failure = "none"

NextUri == Rewrite \/ RewriteAgain

SpecUri == InitUri /\ [][NextUri]_vars

InitFields ==
    /\ f_table \in FieldTables
    /\ f_pc = "input" /\ f_out = NoOutput
    /\ a_pc = "idle" /\ a_obj = NoRequestObj /\ a_out = NoCall
    /\ u_pc = "idle" /\ u_in = <<>> /\ u_reg = <<>>
    /\ u_out = NoResult /\ u_again = NoResult
    /\ pc = "idle" /\ bundles = <<>> /\ map_keys = {} /\ type_keys = {}
    /\ map_tids = {} /\ connection = "unopened"
    /\ nid_to_existing_obj = <<>> /\ nid_to_new_obj = <<>>
    /\ bi = 0 /\ queue = <<>> /\ batch = <<>>
    /\ fi = 0 /\ plan = <<>> /\ rels = <<>>
    /\ reqs = <<>> /\ served = 0 /\ last_patch = NoPatch
    /\ stderr = <<>> /\ report = <<>>
    /\ exit_status = "running" /\ failure = "none"

NextFields == Transcode

SpecFields == InitFields /\ [][NextFields]_vars

InitLinks ==
    /\ f_table \in LinkTables
    /\ f_pc = "input" /\ f_out = NoOutput
    /\ a_pc = "idle" /\ a_obj = NoRequestObj /\ a_out = NoCall
    /\ u_pc = "idle" /\ u_in = <<>> /\ u_reg = <<>>
    /\ u_out = NoResult /\ u_again = NoResult
    /\ pc = "idle" /\ bundles = <<>> /\ map_keys = {} /\ type_keys = {}
    /\ map_tids = {} /\ connection = "unopened"
    /\ nid_to_existing_obj = <<>> /\ nid_to_new_obj = <<>>
    /\ bi = 0 /\ queue = <<>> /\ batch = <<>>
    /\ fi = 0 /\ plan = <<>> /\ rels = <<>>
    /\ reqs = <<>> /\ served = 0 /\ last_patch = NoPatch
    /\ stderr = <<>> /\ report = <<>>
    /\ exit_status = "running" /\ failure = "none"

NextLinks == TranscodeLinks

SpecLinks == InitLinks /\ [][NextLinks]_vars

InitApi ==
    /\ a_obj \in RequestObjs
    /\ a_pc = "input" /\ a_out = NoCall
    /\ u_pc = "idle" /\ u_in = <<>> /\ u_reg = <<>>
    /\ u_out = NoResult /\ u_again = NoResult
    /\ f_pc = "idle" /\ f_table = <<>> /\ f_out = NoOutput
    /\ pc = "idle" /\ bundles = <<>> /\ map_keys = {} /\ type_keys = {}
    /\ map_tids = {} /\ connection = "unopened"
    /\ nid_to_existing_obj = <<>> /\ nid_to_new_obj = <<>>
    /\ bi = 0 /\ queue = <<>> /\ batch = <<>>
    /\ fi = 0 /\ plan = <<>> /\ rels = <<>>
    /\ reqs = <<>> /\ served = 0 /\ last_patch = NoPatch
    /\ stderr = <<>> /\ report = <<>>
    /\ exit_status = "running" /\ failure = "none"

NextApi == get \/ post \/ patch

SpecApi == InitApi /\ [][NextApi]_vars

(***************************************************************************)
(* Claims about the create phase, checked under Spec and FairSpec.         *)
(***************************************************************************)
\* A create request for the base entity of a legacy node.
IsNodeCreate(r) == r.method = "POST" /\ r.nid # 0

\* A create request for a paragraph.
IsParagraphCreate(r) == r.method = "POST" /\ r.nid = 0

Elements(seq) == {seq[i] : i \in 1..Len(seq)}

\* The legacy nodes the bundles of the command line select.
SelectedNids == UNION {Elements(NodesToPost(bundles[b], map_keys)) : b \in 1..Len(bundles)}

\* C1: a run sends exactly one create request for each legacy node selected
\* for migration, none for a node the carried-over mapping already holds, and
\* never two for the same legacy node.
C1_OneCreatePerSelectedNode ==
    /\ \A i, j \in 1..Len(reqs) :
           (i < j /\ IsNodeCreate(reqs[i]) /\ IsNodeCreate(reqs[j]))
               => reqs[i].nid # reqs[j].nid
    /\ \A i \in 1..Len(reqs) :
           IsNodeCreate(reqs[i]) => reqs[i].nid \notin DOMAIN nid_to_existing_obj
    /\ (pc = "done" /\ exit_status = "ok")
           => \A nid \in SelectedNids : \E i \in 1..Len(reqs) :
                  IsNodeCreate(reqs[i]) /\ reqs[i].nid = nid

\* C2: an entry of the registry is never overwritten: a legacy id mapped to a
\* remote entity stays mapped to that entity, and the keys of nid_to_new_obj
\* and of nid_to_existing_obj stay disjoint.
C2_RegistryEntriesNeverOverwritten ==
    [][/\ \A k \in DictKeys(nid_to_new_obj) :
              /\ k \in DictKeys(nid_to_new_obj')
              /\ DictGet(nid_to_new_obj', k) = DictGet(nid_to_new_obj, k)
       /\ DictKeys(nid_to_new_obj') \cap DOMAIN nid_to_existing_obj' = {}]_vars

\* C3: registering a remote entity for a legacy id that is registered already
\* fails with DuplicateRegistration and leaves the registry as it was.
C3_DuplicateRegistrationFails ==
    [][(pc = "posting" /\ queue = <<>>
        /\ DictKeys(batch) \cap DictKeys(nid_to_new_obj) # {})
           => (nid_to_new_obj' = nid_to_new_obj
               /\ failure' = "DuplicateRegistration")]_vars

\* The books a page belongs to as a sub-page.
ParentsOf(nid) ==
    {BookTable[i].bid : i \in {j \in 1..Len(BookTable) :
                                   BookTable[j].nid = nid /\ BookTable[j].bid # nid}}

\* A successful create request for legacy node nid is among the requests.
CreatedIn(requests, nid) ==
    \E i \in 1..Len(requests) :
        IsNodeCreate(requests[i]) /\ requests[i].ok /\ requests[i].nid = nid

\* The parent node of the paragraph request r was created by a successful
\* request among requests, and the registry holds it.
ParagraphParentReady(requests, r) ==
    /\ \E i \in 1..Len(requests) :
           /\ IsNodeCreate(requests[i]) /\ requests[i].ok
           /\ requests[i].obj.nid = r.parent_id
    /\ \E i \in 1..Len(nid_to_new_obj) : nid_to_new_obj[i].v.nid = r.parent_id

\* The request a step sends, when it sends a create request.
SendsCreate == Len(reqs') = Len(reqs) + 1 /\ reqs'[Len(reqs')].method = "POST"

\* C4, as stated: when the create request of a child is sent, the parent's
\* create has returned success and the parent is registered.
C4_Original_ParentRegisteredBeforeChild ==
    [][SendsCreate =>
           IF IsParagraphCreate(reqs'[Len(reqs')])
           THEN ParagraphParentReady(reqs, reqs'[Len(reqs')])
           ELSE \A parent \in ParentsOf(reqs'[Len(reqs')].nid) :
                    parent \in DictKeys(nid_to_new_obj) \cup DOMAIN nid_to_existing_obj]_vars

\* C4: when the create request of a child is sent, the parent exists at the
\* target: the parent of a paragraph was created by a successful request of
\* this run and is registered; the service a book page belongs to was created
\* by a successful request of this run or was carried over by the mapping.
C4_ParentExistsBeforeChild ==
    [][SendsCreate =>
           IF IsParagraphCreate(reqs'[Len(reqs')])
           THEN ParagraphParentReady(reqs, reqs'[Len(reqs')])
           ELSE \A parent \in ParentsOf(reqs'[Len(reqs')].nid) :
                    CreatedIn(reqs, parent) \/ parent \in DOMAIN nid_to_existing_obj]_vars

\* A book page was created after its service, and a paragraph after its node.
C4_Witness ==
    /\ \E i, j \in 1..Len(reqs) :
           /\ i < j
           /\ IsNodeCreate(reqs[i]) /\ reqs[i].ok
           /\ IsNodeCreate(reqs[j]) /\ reqs[i].nid \in ParentsOf(reqs[j].nid)
    /\ \E i, j \in 1..Len(reqs) :
           /\ i < j
           /\ IsNodeCreate(reqs[i]) /\ reqs[i].ok
           /\ IsParagraphCreate(reqs[j]) /\ reqs[j].parent_id = reqs[i].obj.nid

\* The book pages no service node is the book of: the page of a book that
\* is no node, the pages of two books that name each other.
UnresolvedPages ==
    {nid \in Elements(load_objs_from_database("book")) :
        ParentsOf(nid) \cap Elements(load_objs_from_database("service")) = {}}

\* migrate_service_nodes has returned and its result is registered.
ServiceBundleDone == pc = "bundle" /\ bi > 1 /\ bundles[bi - 1] = "service"

C5_UnresolvedPagesLeftOut ==
    /\ \A i \in 1..Len(reqs) : reqs[i].nid \notin UnresolvedPages
    /\ DictKeys(nid_to_new_obj) \cap UnresolvedPages = {}
    /\ DictKeys(batch) \cap UnresolvedPages = {}
    /\ failure # "CyclicOrUnresolvedHierarchy"
    /\ ServiceBundleDone => failure = "none"

AllEmpty(dict) == \A i \in 1..Len(dict) : dict[i].v = <<>>

KeysOf(dict) == [i \in 1..Len(dict) |-> dict[i].k]

\* An update request has been sent, and last_patch is its body.
UpdateSent == last_patch # NoPatch

AttributeNames(type) ==
    IF type = "page" THEN <<"body", "field_content_last_reviewed">>
    ELSE IF type = "news" THEN <<"body", "field_news_category">>
    ELSE IF type \in {"guide", "help_guide", "subject_quick_guide", "subject_detailed_guide"}
    THEN <<"field_content_last_reviewed", "field_guide_type">>
    ELSE IF type = "service"
    THEN <<"field_service_action_link", "body", "field_content_last_reviewed",
           "field_eligibility", "field_short_description">>
    ELSE <<"field_database_advisory", "field_database_alt_spellings",
           "field_database_alternate_titles", "field_database_author",
           "field_database_authorized_users", "field_database_brief_description",
           "field_content_last_reviewed", "field_database_date_coverage",
           "field_database_description", "field_database_fulltext",
           "field_database_important_details", "field_database_link",
           "field_database_publisher", "field_database_trial_feedback">>

\* The relationships migrate_<type>_fields sets, in order.
RelationshipNames(type) ==
    IF type \in {"page", "news"} THEN <<>>
    ELSE IF type = "guide" THEN <<"field_guide_section">>
    ELSE IF type = "help_guide" THEN <<"field_contact_service_point", "field_guide_section">>
    ELSE IF type = "subject_quick_guide"
    THEN <<"field_key_resources", "field_guide_subject_category">>
    ELSE IF type = "subject_detailed_guide"
    THEN <<"field_guide_section", "field_guide_subject_category">>
    ELSE IF type = "service"
    THEN <<"field_contact_service_point", "field_service_category">>
    ELSE <<"field_database_subject", "field_database_type">>

\* The legacy types whose migrate_<type>_fields can have built the body.
FieldTypes ==
    {"page", "news", "guide", "help_guide", "subject_quick_guide",
     "subject_detailed_guide", "service", "database"}

C6_CleanUriIdempotent ==
    u_pc = "twice" => u_again.exc = "none" /\ u_again.uri = u_out.uri

\* A proxy login URI without scheme has been rewritten twice: the first
\* rewrite changed it.
C6_Witness ==
    /\ u_pc = "twice"
    /\ u_in = S_proxyhost \o S_login \o S_x
    /\ u_out.uri = S_https \o S_proxyhost
                   \o <<"/", "l", "o", "g", "i", "n", "?", "q", "u", "r", "l", "=">> \o S_x

\* The three spellings of the internal-node URI of a legacy id.
NodeForms(idtext) ==
    {S_node \o idtext, S_slash \o S_node \o idtext, S_libnode \o idtext}

\* C7: with a registry that maps legacy node 42 to a remote node whose
\* drupal_internal__nid is 7, each spelling of the node-42 URI is rewritten
\* to "internal:/node/7" without warning; the URI of a legacy id the registry
\* lacks is rewritten to "internal:/node/fourohfour", one warning is recorded
\* and no exception is raised.
C7_InternalLinkOrSentinel ==
    u_pc # "input" =>
        /\ (u_in \in NodeForms(S_42) /\ 42 \in DOMAIN u_reg /\ u_reg[42].nid = 7)
               => u_out = Returned(S_internalnode \o <<"7">>, <<>>)
        /\ \A idtext \in {S_42, S_99} :
               (u_in \in NodeForms(idtext) /\ ParseInt(idtext) \notin DOMAIN u_reg)
                   => /\ u_out.exc = "none"
                      /\ u_out.uri = S_internalnode \o S_fourohfour
                      /\ Len(u_out.warnings) = 1
                      /\ u_out.warnings[1].nid = idtext

\* The absolute URI of the registered node 42 has been rewritten.
C7_Witness ==
    /\ u_pc = "once"
    /\ u_in = S_libnode \o S_42
    /\ 42 \in DOMAIN u_reg
    /\ u_out.uri = S_internalnode \o <<"7">>

(***************************************************************************)
(* Claims about the field transcoders, checked under SpecFields.           *)
(***************************************************************************)
\* The row of f_table with exactly i - 1 rows of smaller delta.
RowAt(i) ==
    CHOOSE r \in {f_table[j] : j \in 1..Len(f_table)} :
        Cardinality({j \in 1..Len(f_table) : f_table[j].delta < r.delta}) = i - 1

\* out has one element per row of f_table, the i-th made by part from the
\* row of i-th smallest delta.
OnePerRowInDeltaOrder(out, part(_)) ==
    /\ Len(out) = Len(f_table)
    /\ \A i \in 1..Len(out) : out[i] = part(RowAt(i))

TextOf(r) == r.text
TitleOf(r) == r.title
DayOf(r) == <<r.date[1], r.date[2], r.date[3]>>
TermOf(r) == 2000 + r.tid
HrefsOf(r) == r.value
DeltaOf(r) == r.delta

\* The transcoders that loop over the rows and append once per row.
RowWiseInDeltaOrder ==
    /\ OnePerRowInDeltaOrder([i \in 1..Len(f_out.loaded) |-> f_out.loaded[i].delta], DeltaOf)
    /\ OnePerRowInDeltaOrder(f_out.plain, TextOf)
    /\ OnePerRowInDeltaOrder(f_out.list, TextOf)
    /\ OnePerRowInDeltaOrder([i \in 1..Len(f_out.formatted) |-> f_out.formatted[i].value],
                             HrefsOf)
    /\ OnePerRowInDeltaOrder([i \in 1..Len(f_out.summary) |-> f_out.summary[i].value],
                             HrefsOf)
    /\ OnePerRowInDeltaOrder([i \in 1..Len(f_out.link) |-> f_out.link[i].title], TitleOf)
    /\ OnePerRowInDeltaOrder(f_out.reviewed, DayOf)
    /\ OnePerRowInDeltaOrder([i \in 1..Len(f_out.taxonomy) |-> f_out.taxonomy[i].id],
                             TermOf)
    /\ Len(f_out.reference) = Len(f_table)

\* The ranks, by delta, of the rows whose term is one of the two news
\* categories.
KeptRanks == {i \in 1..Len(f_table) : RowAt(i).tid \in {1213, 1219}}

KthKept(k) == CHOOSE i \in KeptRanks : Cardinality({j \in KeptRanks : j < i}) = k - 1

AllNids == {NodeTable[i].nid : i \in 1..Len(NodeTable)}

\* The legacy records of the requested bundles.
RequestedNids ==
    {nid \in AllNids : \E b \in 1..Len(bundles) : load_type(nid) = bundles[b]}

\* A record that is not to be migrated: it is a key of the carried-over
\* mapping, it is a help guide on the do-not-migrate list, or it is a news
\* node that is not newer than the cutoff.
SkippedRecord(nid) ==
    \/ IntToStr(nid) \in map_keys
    \/ load_type(nid) = "help_guide" /\ IntToStr(nid) \in do_not_migrate
    \/ load_type(nid) = "news" /\ ~node_newer_than_cutoff(nid, Cutoff)

\* How far a record has come: 0 Pending or Skipped, 1 Created, 2
\* FieldsAttached, 3 Done.
Rank(nid, requests, new, passed) ==
    IF \E i \in 1..Len(new) : i < passed /\ new[i].k = nid THEN 3
    ELSE IF \E j \in 1..Len(requests) :
                requests[j].method = "PATCH" /\ requests[j].ok /\ requests[j].nid = nid
    THEN 2
    ELSE IF \E j \in 1..Len(requests) :
                IsNodeCreate(requests[j]) /\ requests[j].ok /\ requests[j].nid = nid
    THEN 1
    ELSE 0

\* Every update follows a successful create of the same record, for the
\* entity that create returned.
UpdatesFollowCreates(requests) ==
    \A j \in 1..Len(requests) :
        requests[j].method = "PATCH" =>
            \E i \in 1..(j - 1) :
                /\ IsNodeCreate(requests[i]) /\ requests[i].ok
                /\ requests[i].nid = requests[j].nid
                /\ requests[i].obj = requests[j].obj

CreatedNids(requests) ==
    {requests[i].nid : i \in {j \in 1..Len(requests) :
                                 IsNodeCreate(requests[j]) /\ requests[j].ok}}

\* C12, as stated: when the next remote request is issued, every record
\* whose create request returned success is in the registry.
C12_Original_RegisteredBeforeNextRequest ==
    [][Len(reqs') > Len(reqs) => CreatedNids(reqs) \subseteq DictKeys(nid_to_new_obj)]_vars

\* The run ended on a failed create of a base entity.
CreateFailed ==
    /\ pc = "done" /\ failure = "RequestException"
    /\ reqs # <<>>
    /\ IsNodeCreate(reqs[Len(reqs)]) /\ ~reqs[Len(reqs)].ok

\* C12: a created record is registered when all creates of its bundle have
\* returned: until then its entity is only in the dict migrate_<bundle>_nodes
\* is building, and the registry does not hold that entity; the registry
\* holds every created record before the first field request is sent; when a
\* create fails, the records created before it in the same bundle are never
\* registered.
C12_RegisteredWhenBundleReturns ==
    /\ CreatedNids(reqs) \subseteq DictKeys(nid_to_new_obj) \cup DictKeys(batch)
    /\ \A i \in 1..Len(batch) :
           \/ batch[i].k \notin DictKeys(nid_to_new_obj)
           \/ DictGet(nid_to_new_obj, batch[i].k) # batch[i].v
    /\ batch # <<>> => pc = "posting" \/ CreateFailed
    /\ (\E j \in 1..Len(reqs) : ~IsNodeCreate(reqs[j]))
           => CreatedNids(reqs) \subseteq DictKeys(nid_to_new_obj)

\* A create failed in the second bundle: the records of the first bundle are
\* registered, the record created before the failure in the second is not.
C12_Witness ==
    /\ CreateFailed
    /\ nid_to_new_obj # <<>>
    /\ \E i \in 1..Len(batch) : batch[i].k \notin DictKeys(nid_to_new_obj)

(***************************************************************************)
(* Claims about failure, checked under Spec.                               *)
(***************************************************************************)
\* C13: a create or update request that the target answers with a
\* non-success status raises and ends the run: it is the last request of the
\* run, so nothing is retried and no further create or update is sent, and
\* the run has ended with a non-zero exit status; the same holds for a
\* refused GET of a mapped entity.
C13_FailedRequestIsFatal ==
    /\ \A i \in 1..Len(reqs) :
           ~reqs[i].ok =>
               /\ i = Len(reqs)
               /\ pc = "done" /\ exit_status = "error" /\ failure = "RequestException"
    /\ failure = "RequestException" => pc = "done" /\ exit_status = "error"
    /\ exit_status = "ok" => failure = "none" /\ \A i \in 1..Len(reqs) : reqs[i].ok

\* An update was refused after creates and an update had succeeded: it is
\* the last request, and the run has ended in error.
C13_Witness ==
    /\ pc = "done" /\ exit_status = "error"
    /\ reqs # <<>>
    /\ reqs[Len(reqs)].method = "PATCH" /\ ~reqs[Len(reqs)].ok
    /\ \E i, j \in 1..(Len(reqs) - 1) :
           /\ reqs[i].method = "POST" /\ reqs[i].ok
           /\ reqs[j].method = "PATCH" /\ reqs[j].ok

\* The run was ended inside the first loop of cli(), by something other than
\* a refused request.
CreatePhaseAborted ==
    /\ pc = "done" /\ exit_status = "error"
    /\ connection = "closed" /\ fi = 0
    /\ failure # "RequestException"

\* C14: whatever the mapping carries over and whatever bundles are
\* requested, the records that are already migrated do not make the run
\* abort: the create phase is only ever ended by a refused request, and in a
\* run that ends well the carried-over records were skipped and every other
\* selected record is Done.
C14_CarriedOverRecordsNeverAbort ==
    /\ ~CreatePhaseAborted
    /\ (pc = "done" /\ exit_status = "ok") =>
           \A nid \in RequestedNids :
               IF SkippedRecord(nid)
               THEN Rank(nid, reqs, nid_to_new_obj, fi) = 0
               ELSE Rank(nid, reqs, nid_to_new_obj, fi) = 3

(***************************************************************************)
(* Claims about references between records, checked under Spec.            *)
(***************************************************************************)
\* The legacy nodes the entity-reference rows of a record name: its
\* service points and the databases of its key resources.
ReferenceTargets(nid) ==
    {load_field_data("field_service_point", nid)[i].target_id :
        i \in 1..Len(load_field_data("field_service_point", nid))}
    \cup UNION {{load_field_data("field_key_resource_databases", item)[i].target_id :
                   i \in 1..Len(load_field_data("field_key_resource_databases", item))} :
               item \in {load_field_data("field_key_resources", nid)[k].target_id :
                            k \in 1..Len(load_field_data("field_key_resources", nid))}}

\* The entity references in the body of a paragraph create.
ReferencesSent(type, sent) ==
    IF type = "paragraph--from_library" THEN {sent}
    ELSE IF type = "paragraph--key_resources" THEN Elements(sent[1])
    ELSE {}

\* The remote entities that exist for a legacy node: the one carried over
\* and those the creates of this run returned.
EntitiesOf(t, requests) ==
    (IF t \in DOMAIN nid_to_existing_obj THEN {nid_to_existing_obj[t]} ELSE {})
    \cup {requests[i].obj : i \in {j \in 1..Len(requests) :
                                       /\ IsNodeCreate(requests[j]) /\ requests[j].ok
                                       /\ requests[j].nid = t}}

\* A paragraph of the record the second loop is at has just been created.
ParagraphSent == Len(rels') = Len(rels) + 1

TermFields(type) ==
    IF type \in {"service", "book"} THEN <<"field_service_category">>
    ELSE IF type = "database" THEN <<"field_subject", "field_database_type">>
    ELSE IF type \in {"subject_quick_guide", "subject_detailed_guide"}
    THEN <<"field_subject_category">>
    ELSE <<>>

\* The legacy tids of the taxonomy rows of a record, field by field.
TermsOf(nid) ==
    Concat([f \in 1..Len(TermFields(load_type(nid))) |->
               [i \in 1..Len(load_field_data(TermFields(load_type(nid))[f], nid)) |->
                   load_field_data(TermFields(load_type(nid))[f], nid)[i].tid]])

\* Every structural reference of the record can be resolved: its entity
\* reference targets are in the registry, its tids in the mapping.
Resolvable(nid, nid_to_obj) ==
    /\ ReferenceTargets(nid) \subseteq DOMAIN nid_to_obj
    /\ \A i \in 1..Len(TermsOf(nid)) : IntToStr(TermsOf(nid)[i]) \in map_tids

\* The legacy record whose fields the update that is sent now carries: the
\* record itself, or its detailed guide in the second update of a quick
\* guide.
PartSource(nid, planned) ==
    IF planned = <<>> /\ nid \in DictKeys(find_subject_guide_pairs)
    THEN DictGet(find_subject_guide_pairs, nid)
    ELSE nid

\* The ids of the taxonomy references of an update body, in order.
TermIdsSent(relationships) ==
    Concat([r \in 1..Len(relationships) |->
               [i \in 1..Len(SelectSeq(relationships[r].v,
                                       LAMBDA x : x.type = "taxonomy_term--subject")) |->
                   SelectSeq(relationships[r].v,
                             LAMBDA x : x.type = "taxonomy_term--subject")[i].id]])

SendsUpdate == Len(reqs') = Len(reqs) + 1 /\ reqs'[Len(reqs')].method = "PATCH"

C16_ConnectionOpenedOnceAndClosed ==
    [][/\ (connection' = "open" /\ connection # "open") => connection = "unopened"
       /\ connection = "closed" => connection' = "closed"
       /\ pc' = "done" => connection' \in {"unopened", "closed"}
       /\ (pc' = "done" /\ connection # "unopened") => connection' = "closed"]_vars

\* A run that was ended by an exception of the field phase, after requests
\* had been sent: its connection is closed.
C16_Witness ==
    /\ pc = "done" /\ exit_status = "error"
    /\ failure = "KeyError" /\ fi > 0
    /\ reqs # <<>>
    /\ connection = "closed"

(***************************************************************************)
(* Claims about the rewriting of links in fields, checked under            *)
(* SpecFields.                                                             *)
(***************************************************************************)
\* Every href of the submitted text is clean_uri of the href at the same
\* place of the legacy text.
HrefsRewritten(submitted, legacy) ==
    /\ Len(submitted) = Len(legacy)
    /\ \A h \in 1..Len(submitted) : submitted[h] = clean_uri(legacy[h], Reg42, 1).uri

\* C18: in every submitted formatted-text and text-with-summary value, every
\* href is clean_uri of the legacy href, and the uri of every submitted link
\* is clean_uri of the legacy url (an empty one being sent as
\* "route:<nolink>").
C18_EveryReferenceRewritten ==
    f_pc = "done" =>
        /\ \A i \in 1..Len(f_out.formatted) :
               HrefsRewritten(f_out.formatted[i].value, f_out.loaded[i].value)
        /\ \A i \in 1..Len(f_out.summary) :
               /\ HrefsRewritten(f_out.summary[i].value, f_out.loaded[i].value)
               /\ HrefsRewritten(f_out.summary[i].summary, f_out.loaded[i].summary)
        /\ \A i \in 1..Len(f_out.link) :
               f_out.link[i].uri =
                   IF clean_uri(f_out.loaded[i].url, Reg42, 1).uri = <<>>
                   THEN S_route_nolink
                   ELSE clean_uri(f_out.loaded[i].url, Reg42, 1).uri

(***************************************************************************)
(* Claims about the proxy rewrites and the frame of clean_uri, checked     *)
(* under SpecUri.                                                          *)
(***************************************************************************)
\* The ways a URI names a host: without scheme, with https, with http.
Schemes == {<<>>, S_https, S_http}

OnProxyHost(uri) == \E scheme \in Schemes : StartsWith(uri, scheme \o S_proxyhost)

IsProxyLogin(uri) ==
    \E scheme \in Schemes : StartsWith(uri, scheme \o S_proxyhost \o S_login)

S_loginqurl == <<"/", "l", "o", "g", "i", "n", "?", "q", "u", "r", "l", "=">>

\* C19: for every input URI on the proxy host, the rewritten URI is an
\* https URI on the proxy host, and a proxy login URI is rewritten to one
\* that carries its target in qurl instead of url.
C19_ProxyRewritesUnconditional ==
    (u_pc # "input" /\ OnProxyHost(u_in)) =>
        /\ u_out.exc = "none"
        /\ StartsWith(u_out.uri, S_https \o S_proxyhost)
        /\ IsProxyLogin(u_in) => StartsWith(u_out.uri, S_https \o S_proxyhost \o S_loginqurl)

\* An internal-node path, in one of its three spellings.
IsInternalNodePath(uri) ==
    StartsWith(uri, S_node) \/ StartsWith(uri, S_slash \o S_node) \/ StartsWith(uri, S_libnode)

IsHelpPath(uri) == StartsWith(uri, S_help) \/ StartsWith(uri, S_slash \o S_help)

\* C20: clean_uri returns its input unchanged, without a warning and
\* without an exception, for every URI that is neither an internal-node
\* path, nor a URI on the proxy host, nor a help path, absolute URIs on other
\* hosts and "internal:" URIs among them; and it leaves the registry as it
\* was.
C20_OtherUrisUntouched ==
    [][/\ u_reg' = u_reg
       /\ (u_pc' # "input"
            /\ ~IsInternalNodePath(u_in') /\ ~OnProxyHost(u_in') /\ ~IsHelpPath(u_in'))
              => u_out' = Returned(u_in', <<>>)
       /\ (u_pc' # "input" /\ (StartsWith(u_in', S_internal) \/ StartsWith(u_in', S_https \o S_x)))
              => u_out' = Returned(u_in', <<>>)]_vars

\* An absolute URI on another host whose path is a node path has been
\* rewritten: it came back as it was.
C20_Witness ==
    /\ u_pc # "input"
    /\ u_in = S_https \o S_x \o S_slash \o S_node
    /\ u_out = Returned(u_in, <<>>)


(***************************************************************************)
(* Claims about the validation of request objects, checked under SpecApi.  *)
(***************************************************************************)
\* The object is not a dict, lacks 'data', or its 'data' dict has a missing or
\* empty 'type' or a type that is not two parts separated by '--'.
MalformedObj(obj) ==
    \/ ~obj.is_dict
    \/ ~obj.has_data
    \/ /\ obj.data_kind = "dict"
       /\ \/ ~obj.has_type
          \/ obj.type = <<>>
          \/ Len(Split(obj.type, S_dashdash)) # 2

\* The 'id' of the 'data' dict is missing or empty.
MalformedId(obj) == obj.data_kind = "dict" /\ (~obj.has_id \/ obj.id = <<>>)

Malformed(method, obj) ==
    MalformedObj(obj) \/ (method \in {"PATCH", "GET"} /\ MalformedId(obj))

UnknownBundleNamed == \E i \in 1..Len(bundles) : bundles[i] \notin KnownBundles

\* C22: with a bundle name on the command line that is not a known one, the
\* run does nothing but end: it exits with a non-zero status by sys.exit, the
\* mapping is never loaded, no request is sent to the target, and the legacy
\* database is never opened, whatever the other names are.
C22_UnknownBundleEndsRunFirst ==
    UnknownBundleNamed =>
        /\ pc \in {"start", "done"}
        /\ pc = "done" => exit_status = "error" /\ failure = "SystemExit"
        /\ nid_to_existing_obj = <<>> /\ nid_to_new_obj = <<>>
        /\ reqs = <<>> /\ served = 0
        /\ connection = "unopened"
        /\ report = <<>>

\* The run has ended on an unknown name that follows a known one, with a
\* mapping that carries records over.
C22_Witness ==
    /\ pc = "done" /\ exit_status = "error"
    /\ Len(bundles) = 2
    /\ bundles[1] \in KnownBundles /\ bundles[2] \notin KnownBundles
    /\ map_keys # {} /\ map_keys \subseteq type_keys


(***************************************************************************)
(* Claims about the order of the requests of one record, checked under     *)
(* Spec.                                                                   *)
(***************************************************************************)
IsUpdate(r) == r.method = "PATCH"

IsSubCreate(r) == r.method = "POST" /\ r.nid = 0

\* The references to sub-entities in the relationships of an update.
SubEntityRefs(relationships) ==
    UNION {{relationships[i].v[k] :
              k \in {m \in 1..Len(relationships[i].v) :
                        "target_revision_id" \in DOMAIN relationships[i].v[m]}} :
           i \in 1..Len(relationships)}

\* The requests before position j that are not sub-entity creates.
BoundariesBefore(requests, j) == {i \in 1..(j - 1) : ~IsSubCreate(requests[i])}

\* The sub-entity creates between the last request before j that is not one
\* and j.
SubCreatesJustBefore(requests, j) ==
    {i \in 1..(j - 1) : \A b \in BoundariesBefore(requests, j) : b < i}

LastUpdate(requests) ==
    CHOOSE j \in 1..Len(requests) :
        IsUpdate(requests[j]) /\ \A k \in (j + 1)..Len(requests) : ~IsUpdate(requests[k])

\* Every update follows the successful create of the entity it updates, and
\* every sub-entity create follows the successful create of its parent.
CreateComesFirst(requests) ==
    \A j \in 1..Len(requests) :
        /\ IsUpdate(requests[j]) =>
              \E i \in 1..(j - 1) :
                  /\ IsNodeCreate(requests[i]) /\ requests[i].ok
                  /\ requests[i].nid = requests[j].nid
                  /\ requests[i].obj = requests[j].obj
        /\ IsSubCreate(requests[j]) =>
              \E i \in 1..(j - 1) :
                  /\ IsNodeCreate(requests[i]) /\ requests[i].ok
                  /\ requests[i].obj.nid = requests[j].parent_id

\* The update just sent names only sub-entities created for its entity since
\* the request before them, each by the id and revision id of the response.
UpdateNamesCreatedSubEntities(requests, body) ==
    \A ref \in SubEntityRefs(body.relationships) :
        \E i \in SubCreatesJustBefore(requests, LastUpdate(requests)) :
            /\ requests[i].ok
            /\ requests[i].parent_id = requests[LastUpdate(requests)].obj.nid
            /\ requests[i].obj.type = ref.type
            /\ requests[i].obj.id = ref.id
            /\ requests[i].obj.rev = ref.target_revision_id

\* The successful updates of the entity of request j.
UpdatesOf(requests, id) ==
    {j \in 1..Len(requests) :
        IsUpdate(requests[j]) /\ requests[j].ok /\ requests[j].obj.id = id}

\* The sub-entity creates of an entity all come before its update.
SubCreatesBeforeUpdate(requests) ==
    \A j \in 1..Len(requests) :
        IsSubCreate(requests[j]) =>
            \A k \in 1..(j - 1) :
                IsUpdate(requests[k]) => requests[k].obj.nid # requests[j].parent_id

\* C23, as stated: the requests of a record are its create, then the creates
\* of its sub-entities, then one update that names only sub-entities whose
\* create has returned.
C23_Original_CreateSubEntitiesOneUpdate ==
    /\ CreateComesFirst(reqs)
    /\ UpdateSent => UpdateNamesCreatedSubEntities(reqs, last_patch)
    /\ SubCreatesBeforeUpdate(reqs)
    /\ \A j \in 1..Len(reqs) : Cardinality(UpdatesOf(reqs, reqs[j].obj.id)) <= 1

\* C23: the requests of a record are its create, then the creates of the
\* sub-entities of an update, then that update, which names only sub-entities
\* created since the request before them, by the id and revision id their
\* create returned; a record has one update, but the entity of a quick subject
\* guide with a detailed guide has two, the second after the creates of the
\* detailed guide's sub-entities, which follow the first.
C23_CreateSubEntitiesThenUpdate ==
    /\ CreateComesFirst(reqs)
    /\ UpdateSent => UpdateNamesCreatedSubEntities(reqs, last_patch)
    /\ \A j \in 1..Len(reqs) :
           /\ Cardinality(UpdatesOf(reqs, reqs[j].obj.id)) <= 2
           /\ Cardinality(UpdatesOf(reqs, reqs[j].obj.id)) = 2 =>
                  reqs[j].nid \in DictKeys(find_subject_guide_pairs)
    /\ \A j \in 1..Len(reqs) :
           IsSubCreate(reqs[j]) =>
               \A k \in 1..(j - 1) :
                   (IsUpdate(reqs[k]) /\ reqs[k].obj.nid = reqs[j].parent_id) =>
                       /\ reqs[k].nid \in DictKeys(find_subject_guide_pairs)
                       /\ Cardinality({m \in 1..(j - 1) : reqs[m] = reqs[k]}) = 1

\* The update of a record has been sent with the references to two
\* sub-entities created for it.
C23_Witness ==
    /\ UpdateSent
    /\ reqs[Len(reqs)].method = "PATCH" /\ reqs[Len(reqs)].ok
    /\ Cardinality(SubEntityRefs(last_patch.relationships)) >= 2


\* Some key of d7_nid_to_d9_uuid is no key of d7_nid_to_d9_type.
TypeMissing == ~(map_keys \subseteq type_keys)

\* The run has got past load_objs_from_mapping.
MappingLoaded ==
    \/ pc \in {"connect", "bundle", "posting", "fields", "record"}
    \/ pc = "done" /\ (connection # "unopened" \/ failure = "OperationalError")

\* C24: when a key of d7_nid_to_d9_uuid has no entry in d7_nid_to_d9_type
\* the run ends with a non-zero status while the mapping is loaded, with no
\* create or update request sent and the legacy database never opened; when
\* the mapping is loaded, the registry of carried-over entities has exactly
\* the integer values of the keys, each with the entity the target returned
\* for a key of that value.
C24_MappingLoadedOrRunFails ==
    /\ TypeMissing =>
          /\ pc \in {"start", "mapping", "done"}
          /\ pc = "done" => /\ exit_status = "error"
                            /\ failure \in {"SystemExit", "RequestException"}
          /\ reqs = <<>> /\ connection = "unopened"
          /\ nid_to_existing_obj = <<>> /\ report = <<>>
    /\ MappingLoaded =>
          /\ DOMAIN nid_to_existing_obj = {ParseInt(key) : key \in map_keys}
          /\ \A key \in map_keys :
                 \E same \in map_keys :
                     /\ ParseInt(same) = ParseInt(key)
                     /\ nid_to_existing_obj[ParseInt(key)] = CarriedOver(same)
    /\ ~MappingLoaded => reqs = <<>> /\ connection = "unopened"

\* The run has ended in load_objs_from_mapping on a key without a type, with
\* known bundles to migrate.
C24_Witness ==
    /\ TypeMissing /\ ~UnknownBundleNamed /\ bundles # <<>>
    /\ pc = "done" /\ exit_status = "error" /\ failure = "SystemExit"

\* The mapping has been loaded with a key written with a leading zero.
C24_LoadedWitness ==
    /\ MappingLoaded /\ <<"0", "4">> \in map_keys /\ 4 \in DOMAIN nid_to_existing_obj


(***************************************************************************)
(* Claims about the two loops of a run, checked under Spec.                *)
(***************************************************************************)
IsFieldRequest(r) == IsUpdate(r) \/ IsSubCreate(r)

FieldPhaseBegun == \E j \in 1..Len(reqs) : IsFieldRequest(reqs[j])

\* C25: no update and no sub-entity create is sent before the base-entity
\* creates of every named bundle have returned: in the sequence of requests
\* no base-entity create follows an update or a sub-entity create, and when
\* the first of these is sent the first loop is over, every node the bundles
\* select has been created, and the registry holds every created record.
C25_CreatesOfAllBundlesBeforeFields ==
    /\ \A i, j \in 1..Len(reqs) :
           (i < j /\ IsFieldRequest(reqs[i])) => ~IsNodeCreate(reqs[j])
    /\ FieldPhaseBegun =>
           /\ bi > Len(bundles)
           /\ \A b \in 1..Len(bundles) :
                  Elements(NodesToPost(bundles[b], map_keys)) \subseteq CreatedNids(reqs)
           /\ CreatedNids(reqs) = DictKeys(nid_to_new_obj)
    /\ pc \in {"fields", "record"} => bi > Len(bundles) /\ queue = <<>> /\ batch = <<>>

\* A field request has been sent in a run of two different bundles that
\* both had nodes to create.
C25_Witness ==
    /\ FieldPhaseBegun
    /\ Len(bundles) = 2 /\ bundles[1] # bundles[2]
    /\ NodesToPost(bundles[1], map_keys) # <<>>
    /\ NodesToPost(bundles[2], map_keys) # <<>>
    /\ IsNodeCreate(reqs[1]) /\ reqs[1].nid \in Elements(NodesToPost(bundles[1], map_keys))


(***************************************************************************)
(* Claims about a run that ends well, checked under Spec.                  *)
(***************************************************************************)
EndedWell == pc = "done" /\ exit_status = "ok"

\* The positions of the successful base-entity creates.
CreatesIn(requests) ==
    {i \in 1..Len(requests) : IsNodeCreate(requests[i]) /\ requests[i].ok}

\* The number of updates cli() sends for a record: two for a quick subject
\* guide with a detailed guide, one otherwise.
UpdatesDue(nid) == IF nid \in DictKeys(find_subject_guide_pairs) THEN 2 ELSE 1

\* Every entity created in the run has had the updates of its record.
EveryCreatedEntityPatched ==
    \A i \in CreatesIn(reqs) :
        Cardinality({j \in UpdatesOf(reqs, reqs[i].obj.id) : reqs[j].nid = reqs[i].nid})
            = UpdatesDue(reqs[i].nid)

\* C26: when a run has ended well, every remote entity created in it has
\* received the field update of its record, exactly one, and exactly two for
\* a quick subject guide with a detailed guide.
C26_EveryCreatedEntityPatched == EndedWell => EveryCreatedEntityPatched

NoBundleRepeated == \A a, b \in 1..Len(bundles) : bundles[a] = bundles[b] => a = b

\* The same for the runs in which no bundle is named twice.
C26_PatchedWhenNoBundleRepeated ==
    (EndedWell /\ NoBundleRepeated) => EveryCreatedEntityPatched


\* The legacy ids of the report lines, in order.
ReportNids == [i \in 1..Len(report) |-> report[i].nid]

\* The report lists each record created in the run once, with the entity the
\* registry holds for it, and no record the mapping carried over.
ReportListsCreatedRecords ==
    /\ \A i, j \in 1..Len(report) : report[i].nid = report[j].nid => i = j
    /\ Elements(ReportNids) = CreatedNids(reqs)
    /\ \A i \in 1..Len(report) :
           /\ report[i].id = DictGet(nid_to_new_obj, report[i].nid).id
           /\ report[i].type = DictGet(nid_to_new_obj, report[i].nid).type
           /\ \E j \in CreatesIn(reqs) : reqs[j].obj.id = report[i].id
    /\ Elements(ReportNids) \cap DOMAIN nid_to_existing_obj = {}

\* The report is written at the end of a run in which every request
\* succeeded and every registered record had its updates; a run that ends
\* with an error has no report.
ReportOnlyAfterAllUpdates ==
    /\ report # <<>> =>
          /\ EndedWell
          /\ \A j \in 1..Len(reqs) : reqs[j].ok
          /\ \A i \in 1..Len(nid_to_new_obj) :
                 \E j \in 1..Len(reqs) :
                     /\ IsUpdate(reqs[j]) /\ reqs[j].nid = nid_to_new_obj[i].k
                     /\ reqs[j].obj = nid_to_new_obj[i].v
    /\ exit_status = "error" => report = <<>>

\* C27: the report of the new legacy id to UUID and legacy id to type lines
\* is written only after every field update of the run has succeeded; it
\* lists exactly the records created in the run, each once, and none that the
\* mapping carried over; a run that aborts writes no report.
C27_ReportOfCreatedRecords ==
    /\ ReportOnlyAfterAllUpdates
    /\ EndedWell => ReportListsCreatedRecords

\* Every key of the mapping is written as str() writes its integer value.
MappingKeysCanonical == \A key \in map_keys : IntToStr(ParseInt(key)) = key

\* The same for the runs whose mapping keys are written without leading
\* zeros.
C27_ReportWhenKeysCanonical ==
    /\ ReportOnlyAfterAllUpdates
    /\ (EndedWell /\ MappingKeysCanonical) => ReportListsCreatedRecords


(***************************************************************************)
(* Claims about what clean_uri raises, checked under SpecUri.              *)
(***************************************************************************)
\* C28: clean_uri never raises: for every input in one of the three
\* spellings of an internal-node path, whatever follows the prefix (nothing,
\* an id, an id with a trailing slash, an id followed by more), it returns a
\* string that starts with "internal:/node/", and an id with a trailing slash
\* gives what the id alone gives.
C28_CleanUriNeverRaises ==
    u_pc # "input" =>
        /\ u_out.exc = "none"
        /\ IsInternalNodePath(u_in) => StartsWith(u_out.uri, S_internalnode)
        /\ \A idtext \in {S_42, S_99} :
               \A form \in NodeForms(idtext) :
                   u_in = form \o S_slash => u_out = clean_uri(form, u_reg, 1)

\* The same for the inputs whose text after the prefix is an integer,
\* with or without one trailing slash.
IdOnly(uri) ==
    \E idtext \in {S_42, S_99} :
        uri \in NodeForms(idtext) \cup {form \o S_slash : form \in NodeForms(idtext)}

C28_InternalLinkOfAnId ==
    (u_pc # "input" /\ IdOnly(u_in)) =>
        /\ u_out.exc = "none"
        /\ StartsWith(u_out.uri, S_internalnode)
        /\ \A idtext \in {S_42, S_99} :
               \A form \in NodeForms(idtext) :
                   u_in = form \o S_slash => u_out = clean_uri(form, u_reg, 1)


(***************************************************************************)
(* Claims about link_to_link, checked under SpecLinks.                     *)
(***************************************************************************)
\* The link made from the row of i-th smallest delta.
LinkOf(r) ==
    [uri |-> IF clean_uri(r.url, Reg42, 1).uri = <<>> THEN S_route_nolink
             ELSE clean_uri(r.url, Reg42, 1).uri,
     title |-> r.title]

\* One link per row, in row order, none with an empty uri.
OneLinkPerRow ==
    /\ f_out.raised = "none"
    /\ OnePerRowInDeltaOrder(f_out.link, LinkOf)
    /\ \A i \in 1..Len(f_out.link) : f_out.link[i].uri # <<>>

\* C30: link_to_link returns one link for each legacy link row, in row
\* order, with the legacy title and with clean_uri of the legacy url as uri,
\* "route:<nolink>" standing for the empty string; no uri is empty.
C30_OneLinkPerRow == f_pc = "done" => OneLinkPerRow

\* clean_uri returns for the url of every row.
CleanUriReturns ==
    \A i \in 1..Len(f_table) : clean_uri(f_table[i].url, Reg42, 1).exc = "none"

\* The same for the tables on whose urls clean_uri returns; on the others
\* link_to_link raises what clean_uri raised.
C30_OneLinkPerRowWhenCleanUriReturns ==
    f_pc = "done" =>
        IF CleanUriReturns THEN OneLinkPerRow
        ELSE f_out.raised = "ValueError" /\ f_out.link = <<>>

\* A table with an empty url between two others has been transcoded.
C30_NolinkWitness ==
    /\ f_pc = "done" /\ Len(f_table) = 3 /\ f_out.raised = "none"
    /\ f_out.link[2].uri = S_route_nolink /\ f_out.link[1].uri # S_route_nolink


(***************************************************************************)
(* Claims about the pairs of subject guides, checked under Spec.           *)
(***************************************************************************)
\* The detailed guides that a quick guide links to.
PairedDetailedNids ==
    {find_subject_guide_pairs[i].v : i \in 1..Len(find_subject_guide_pairs)}

\* The detailed guides that no quick guide links to.
UnpairedDetailedNids ==
    {nid \in AllNids : load_type(nid) = "subject_detailed_guide"} \ PairedDetailedNids

\* The positions of the updates sent for a record.
UpdatesFor(nid) == {j \in 1..Len(reqs) : IsUpdate(reqs[j]) /\ reqs[j].nid = nid}

\* The update just sent has the fields of a detailed guide, and the
\* sub-entities created for it have the entity as their parent.
LastUpdateIsDetailedFor(entity) ==
    /\ last_patch.id = entity.id /\ last_patch.type = entity.type
    /\ KeysOf(last_patch.attributes) = AttributeNames("subject_detailed_guide")
    /\ KeysOf(last_patch.relationships) = RelationshipNames("subject_detailed_guide")
    /\ \A i \in SubCreatesJustBefore(reqs, LastUpdate(reqs)) :
           reqs[i].parent_id = entity.nid

\* C29: a detailed guide that a quick guide links to is never created and
\* never registered; the entity of its quick guide gets a first update with
\* the quick guide's fields and, after that one succeeded, a second with the
\* detailed guide's fields, the sub-entities of which name the quick guide's
\* entity as parent; a detailed guide that no quick guide links to is created
\* when its bundle is named and the mapping does not hold it, and gets one
\* update with its own fields on its own entity.
C29_DetailedGuideFollowsItsPair ==
    /\ \A j \in 1..Len(reqs) : reqs[j].nid \notin PairedDetailedNids
    /\ PairedDetailedNids \cap (DictKeys(nid_to_new_obj) \cup DictKeys(batch)) = {}
    /\ \A p \in 1..Len(find_subject_guide_pairs) :
           LET quick == find_subject_guide_pairs[p].k
           IN /\ Cardinality(UpdatesFor(quick)) <= 2
              /\ \A j \in UpdatesFor(quick) :
                     /\ reqs[j].obj = DictGet(nid_to_new_obj, quick)
                     /\ (j # LastUpdate(reqs) \/ Cardinality(UpdatesFor(quick)) = 2)
                            => reqs[Least(UpdatesFor(quick))].ok
              /\ (UpdatesFor(quick) # {} /\ LastUpdate(reqs) \in UpdatesFor(quick)) =>
                     IF Cardinality(UpdatesFor(quick)) = 2
                     THEN LastUpdateIsDetailedFor(DictGet(nid_to_new_obj, quick))
                     ELSE KeysOf(last_patch.relationships)
                              = RelationshipNames("subject_quick_guide")
              /\ (EndedWell /\ quick \in DictKeys(nid_to_new_obj)) =>
                     Cardinality(UpdatesFor(quick)) = 2
    /\ \A nid \in UnpairedDetailedNids :
           /\ Cardinality(UpdatesFor(nid)) <= 1
           /\ (UpdatesFor(nid) # {} /\ LastUpdate(reqs) \in UpdatesFor(nid)) =>
                  /\ LastUpdateIsDetailedFor(DictGet(nid_to_new_obj, nid))
                  /\ \E i \in CreatesIn(reqs) :
                         reqs[i].nid = nid /\ reqs[i].obj = reqs[LastUpdate(reqs)].obj
           /\ (EndedWell /\ nid \in RequestedNids /\ IntToStr(nid) \notin map_keys) =>
                  /\ nid \in CreatedNids(reqs)
                  /\ Cardinality(UpdatesFor(nid)) = 1

\* A run of the quick guides and the databases has ended well: the detailed
\* guide 17 was never created, and the entity of its quick guide 16 got the
\* update of the quick guide and then that of the detailed guide.
C29_Witness ==
    /\ EndedWell
    /\ bundles = <<"subject_quick_guide", "database">>
    /\ Cardinality(UpdatesFor(16)) = 2
    /\ 16 \in CreatedNids(reqs) /\ 17 \notin CreatedNids(reqs)
    /\ \E i \in 1..Len(reqs) :
           IsSubCreate(reqs[i]) /\ Least(UpdatesFor(16)) < i
               /\ reqs[i].parent_id = DictGet(nid_to_new_obj, 16).nid

\* A run of the detailed guides has ended well: the detailed guide 18, which
\* no quick guide links to, was created and updated on its own; 17 was not.
C29_UnpairedWitness ==
    /\ EndedWell
    /\ bundles = <<"subject_detailed_guide">>
    /\ CreatedNids(reqs) = {18}
    /\ Cardinality(UpdatesFor(18)) = 1
    /\ LastUpdateIsDetailedFor(DictGet(nid_to_new_obj, 18))

=============================================================================
